---- MODULE Spec2Model ----
(***************************************************************************)
(* chronosweep: the audit replay-and-diagnose engine                       *)
(* (internal/audit: rule compiler, matcher evaluator, replay engine,       *)
(* findings engine, Service.Run orchestration).                            *)
(*                                                                         *)
(* Go strings that the code inspects (criteria, headers, rule names,       *)
(* label names) are sequences of one-character strings; identifiers the    *)
(* code only compares for equality (message ids, label ids) are atoms.     *)
(***************************************************************************)
EXTENDS Integers, Sequences, FiniteSets, TLC

(***************************************************************************)
(* Bounds of the model.                                                    *)
(***************************************************************************)
MaxFilters == 2
MaxMsgs == 2

(***************************************************************************)
(* Package strings, as far as the audit package uses it.                   *)
(***************************************************************************)
\* the characters of Go strings that TLA+ has no escape for, written as they
\* are: vertical tab (0x0B), next line (U+0085), no-break space (U+00A0)
VT == ""

NEL == ""

NBSP == " "

\* unicode.IsSpace, which TrimSpace and Fields cut by
SpaceChars == {" ", "\t", "\n", VT, "\f", "\r", NEL, NBSP}

\* the class \s of package regexp
ReSpaceChars == {" ", "\t", "\n", "\f", "\r"}

UpperChars == <<"A","B","C","D","E","F","G","H","I","J","K","L","M",
                "N","O","P","Q","R","S","T","U","V","W","X","Y","Z">>

LowerChars == <<"a","b","c","d","e","f","g","h","i","j","k","l","m",
                "n","o","p","q","r","s","t","u","v","w","x","y","z">>

\* printable ASCII in byte order from 0x20 (the backquote left out)
AsciiChars == <<" ","!","\"","#","$","%","&","'","(",")","*","+",",","-",".","/",
                "0","1","2","3","4","5","6","7","8","9",":",";","<","=",">","?",
                "@","A","B","C","D","E","F","G","H","I","J","K","L","M","N","O",
                "P","Q","R","S","T","U","V","W","X","Y","Z","[","\\","]","^","_",
                "a","b","c","d","e","f","g","h","i","j","k","l","m","n","o",
                "p","q","r","s","t","u","v","w","x","y","z","{","|","}","~">>

\* the characters of the model in byte order
ByteChars == <<"\t", "\n", VT, "\f", "\r">> \o AsciiChars \o <<NEL, NBSP>>

Ord(c) == CHOOSE i \in 1..Len(ByteChars) : ByteChars[i] = c

LowerChar(c) ==
    IF \E i \in 1..Len(UpperChars) : UpperChars[i] = c
    THEN LowerChars[CHOOSE i \in 1..Len(UpperChars) : UpperChars[i] = c]
    ELSE c

ToLower(s) == [i \in 1..Len(s) |-> LowerChar(s[i])]

RECURSIVE TrimLeftSet(_, _)
TrimLeftSet(s, cut) ==
    IF s # <<>> /\ Head(s) \in cut THEN TrimLeftSet(Tail(s), cut) ELSE s

RECURSIVE TrimRightSet(_, _)
TrimRightSet(s, cut) ==
    IF s # <<>> /\ s[Len(s)] \in cut
    THEN TrimRightSet(SubSeq(s, 1, Len(s) - 1), cut)
    ELSE s

Trim(s, cut) == TrimRightSet(TrimLeftSet(s, cut), cut)

TrimSpace(s) == Trim(s, SpaceChars)

HasPrefix(s, p) == Len(s) >= Len(p) /\ SubSeq(s, 1, Len(p)) = p

TrimPrefix(s, p) == IF HasPrefix(s, p) THEN SubSeq(s, Len(p) + 1, Len(s)) ELSE s

TrimSuffix(s, p) ==
    IF Len(s) >= Len(p) /\ SubSeq(s, Len(s) - Len(p) + 1, Len(s)) = p
    THEN SubSeq(s, 1, Len(s) - Len(p))
    ELSE s

Contains(s, sub) ==
    \E i \in 1..(Len(s) - Len(sub) + 1) : SubSeq(s, i, i + Len(sub) - 1) = sub

EqualFold(s, t) == ToLower(s) = ToLower(t)

\* strings.Fields: the maximal runs of non-space characters, in order
RECURSIVE FieldsFrom(_, _, _)
FieldsFrom(s, cur, out) ==
    IF s = <<>>
    THEN IF cur = <<>> THEN out ELSE Append(out, cur)
    ELSE IF Head(s) \in SpaceChars
         THEN FieldsFrom(Tail(s), <<>>, IF cur = <<>> THEN out ELSE Append(out, cur))
         ELSE FieldsFrom(Tail(s), Append(cur, Head(s)), out)

Fields(s) == FieldsFrom(s, <<>>, <<>>)

\* strings.FieldsFunc with the characters of cut as separators
RECURSIVE FieldsFuncFrom(_, _, _, _)
FieldsFuncFrom(s, cut, cur, out) ==
    IF s = <<>>
    THEN IF cur = <<>> THEN out ELSE Append(out, cur)
    ELSE IF Head(s) \in cut
         THEN FieldsFuncFrom(Tail(s), cut, <<>>,
                             IF cur = <<>> THEN out ELSE Append(out, cur))
         ELSE FieldsFuncFrom(Tail(s), cut, Append(cur, Head(s)), out)

FieldsFunc(s, cut) == FieldsFuncFrom(s, cut, <<>>, <<>>)

HasSuffix(s, p) == Len(s) >= Len(p) /\ SubSeq(s, Len(s) - Len(p) + 1, Len(s)) = p

\* strings.Count of a one-character substring
Count(s, c) == Cardinality({i \in DOMAIN s : s[i] = c})

RECURSIVE Join(_, _)
Join(parts, sep) ==
    IF parts = <<>> THEN <<>>
    ELSE IF Len(parts) = 1 THEN parts[1]
         ELSE parts[1] \o sep \o Join(Tail(parts), sep)

\* the Go operator < on strings: byte-wise lexicographic
RECURSIVE StrLess(_, _)
StrLess(a, b) ==
    IF b = <<>> THEN FALSE
    ELSE IF a = <<>> THEN TRUE
         ELSE IF Head(a) = Head(b) THEN StrLess(Tail(a), Tail(b))
              ELSE Ord(Head(a)) < Ord(Head(b))

\* sort.Strings: insertion of x into an ascending sequence
RECURSIVE InsertString(_, _)
InsertString(sorted, x) ==
    IF sorted = <<>> THEN <<x>>
    ELSE IF StrLess(x, Head(sorted))
         THEN <<x>> \o sorted
         ELSE <<Head(sorted)>> \o InsertString(Tail(sorted), x)

RECURSIVE SortStrings(_)
SortStrings(s) ==
    IF s = <<>> THEN <<>>
    ELSE InsertString(SortStrings(SubSeq(s, 1, Len(s) - 1)), s[Len(s)])

\* a Go map read: the zero value (a nil slice) when the key is absent
Lookup(m, k) == IF k \in DOMAIN m THEN m[k] ELSE <<>>

Range(s) == {s[i] : i \in DOMAIN s}

\* strings.Cut at the first sep, a character
Cut(s, sep) ==
    IF \E i \in DOMAIN s : s[i] = sep
    THEN [before |-> SubSeq(s, 1, Len(s) - Len(TrimLeftSet(s, Range(s) \ {sep}))),
          after |-> Tail(TrimLeftSet(s, Range(s) \ {sep})),
          found |-> TRUE]
    ELSE [before |-> s, after |-> <<>>, found |-> FALSE]

(***************************************************************************)
(* Helpers of the audit package.                                           *)
(***************************************************************************)
appendIfMissing(slice, val) ==
    IF \E i \in DOMAIN slice : slice[i] = val THEN slice ELSE Append(slice, val)

\* angleBracketRe ^[<\s]*(.*?)[>\s]*$ : the group is what is left of raw once
\* the leading run of < and spaces and the trailing run of > and spaces are
\* cut; the dot matches no newline, so a newline left inside means no match
angleBracketGroup(raw) ==
    LET inner == TrimRightSet(TrimLeftSet(raw, ReSpaceChars \cup {"<"}),
                              ReSpaceChars \cup {">"})
    IN IF \E i \in DOMAIN inner : inner[i] = "\n" THEN raw ELSE inner

normalizeListID(raw) ==
    LET r0 == TrimSpace(raw)
    IN IF r0 = <<>> THEN <<>>
       ELSE LET r1 == TrimSpace(angleBracketGroup(r0))
                r2 == TrimSuffix(r1, <<">">>)
                r3 == TrimPrefix(r2, <<"<">>)
                r4 == Trim(r3, {"\"", " "})
            IN ToLower(r4)

(***************************************************************************)
(* Matcher evaluator.                                                      *)
(***************************************************************************)
containsAny(header, values) ==
    \E i \in DOMAIN values : Contains(ToLower(header), values[i])

matchListID(raw, values) ==
    LET listID == normalizeListID(raw)
    IN \E i \in DOMAIN values : listID = values[i] \/ Contains(listID, values[i])

matcherMatches(m, meta) ==
    CASE m.kind = "From" -> containsAny(Lookup(meta.Headers, "From"), m.values)
      [] m.kind = "To" -> containsAny(Lookup(meta.Headers, "To"), m.values)
      [] m.kind = "Subject" -> containsAny(Lookup(meta.Headers, "Subject"), m.values)
      [] m.kind = "List" -> matchListID(Lookup(meta.Headers, "List-Id"), m.values)
      [] OTHER -> FALSE

ruleMatches(rule, meta) ==
    \A i \in DOMAIN rule.Matchers : matcherMatches(rule.Matchers[i], meta)

(***************************************************************************)
(* Rule compiler.                                                          *)
(***************************************************************************)
RECURSIVE splitParts(_, _)
splitParts(parts, out) ==
    IF parts = <<>> THEN out
    ELSE LET part == ToLower(Trim(Head(parts), {"\"", "'", "(", ")"}))
         IN IF part = <<>> \/ EqualFold(part, <<"O", "R">>)
            THEN splitParts(Tail(parts), out)
            ELSE splitParts(Tail(parts), Append(out, part))

splitCandidates(raw) ==
    LET replaced == [i \in 1..Len(raw) |->
                        IF raw[i] \in {",", ";", "|"} THEN " " ELSE raw[i]]
        trimmed == TrimSpace(replaced)
    IN IF trimmed = <<>> THEN <<>> ELSE splitParts(Fields(trimmed), <<>>)

normalizeQueryToken(raw) ==
    LET trimmed == Trim(raw, {"(", ")", "\"", "'"})
    IN IF trimmed = <<>> \/ EqualFold(trimmed, <<"O", "R">>)
       THEN [value |-> <<>>, skip |-> TRUE, invalid |-> FALSE]
       ELSE IF HasPrefix(trimmed, <<"-">>)
            THEN [value |-> <<>>, skip |-> FALSE, invalid |-> TRUE]
            ELSE [value |-> trimmed, skip |-> FALSE, invalid |-> FALSE]

NoMatcher == [m |-> [kind |-> "None", values |-> <<>>], ok |-> FALSE]

matcherFromToken(token) ==
    LET lower == ToLower(token)
        after(n) == SubSeq(token, n + 1, Len(token))
    IN CASE HasPrefix(lower, <<"l","i","s","t",":">>) ->
              LET val == normalizeListID(after(5))
              IN IF val = <<>> THEN NoMatcher
                 ELSE [m |-> [kind |-> "List", values |-> <<val>>], ok |-> TRUE]
         [] HasPrefix(lower, <<"f","r","o","m",":">>) ->
              LET vals == splitCandidates(after(5))
              IN IF Len(vals) = 0 THEN NoMatcher
                 ELSE [m |-> [kind |-> "From", values |-> vals], ok |-> TRUE]
         [] HasPrefix(lower, <<"s","u","b","j","e","c","t",":">>) ->
              LET vals == splitCandidates(after(8))
              IN IF Len(vals) = 0 THEN NoMatcher
                 ELSE [m |-> [kind |-> "Subject", values |-> vals], ok |-> TRUE]
         [] HasPrefix(lower, <<"t","o",":">>) ->
              LET vals == splitCandidates(after(3))
              IN IF Len(vals) = 0 THEN NoMatcher
                 ELSE [m |-> [kind |-> "To", values |-> vals], ok |-> TRUE]
         [] OTHER -> NoMatcher

NotEvaluable == [matchers |-> <<>>, evaluable |-> FALSE]

RECURSIVE parseTokens(_, _)
parseTokens(tokens, matchers) ==
    IF tokens = <<>>
    THEN IF Len(matchers) = 0 THEN NotEvaluable
         ELSE [matchers |-> matchers, evaluable |-> TRUE]
    ELSE LET tok == normalizeQueryToken(Head(tokens))
         IN IF tok.skip THEN parseTokens(Tail(tokens), matchers)
            ELSE IF tok.invalid THEN NotEvaluable
                 ELSE LET r == matcherFromToken(tok.value)
                      IN IF ~r.ok THEN NotEvaluable
                         ELSE parseTokens(Tail(tokens), Append(matchers, r.m))

parseQueryMatchers(query) == parseTokens(Fields(query), <<>>)

\* buildMatchers that drops a query it cannot parse and keeps the matchers of
\* the other criteria
buildMatchers_IgnoresBadQuery(c) ==
    LET m1 == IF TrimSpace(c.From) # <<>>
              THEN <<[kind |-> "From", values |-> splitCandidates(c.From)]>>
              ELSE <<>>
        m2 == IF TrimSpace(c.To) # <<>>
              THEN Append(m1, [kind |-> "To", values |-> splitCandidates(c.To)])
              ELSE m1
        m3 == IF TrimSpace(c.Subject) # <<>>
              THEN Append(m2, [kind |-> "Subject",
                               values |-> splitCandidates(c.Subject)])
              ELSE m2
        m4 == IF TrimSpace(c.List) # <<>>
              THEN Append(m3, [kind |-> "List",
                               values |-> <<normalizeListID(c.List)>>])
              ELSE m3
        qm == parseQueryMatchers(c.Query)
        m5 == IF TrimSpace(c.Query) # <<>> /\ qm.evaluable
              THEN m4 \o qm.matchers ELSE m4
    IN IF Len(m5) = 0 THEN NotEvaluable
       ELSE [matchers |-> m5, evaluable |-> TRUE]

buildMatchers(c) ==
    LET m1 == IF TrimSpace(c.From) # <<>>
              THEN <<[kind |-> "From", values |-> splitCandidates(c.From)]>>
              ELSE <<>>
        m2 == IF TrimSpace(c.To) # <<>>
              THEN Append(m1, [kind |-> "To", values |-> splitCandidates(c.To)])
              ELSE m1
        m3 == IF TrimSpace(c.Subject) # <<>>
              THEN Append(m2, [kind |-> "Subject",
                               values |-> splitCandidates(c.Subject)])
              ELSE m2
        m4 == IF TrimSpace(c.List) # <<>>
              THEN Append(m3, [kind |-> "List",
                               values |-> <<normalizeListID(c.List)>>])
              ELSE m3
        qm == parseQueryMatchers(c.Query)
    IN IF TrimSpace(c.Query) # <<>> /\ ~qm.evaluable THEN NotEvaluable
       ELSE LET m5 == IF TrimSpace(c.Query) # <<>> THEN m4 \o qm.matchers ELSE m4
            IN IF Len(m5) = 0 THEN NotEvaluable
               ELSE [matchers |-> m5, evaluable |-> TRUE]

RECURSIVE resolveAdds(_, _, _)
resolveAdds(ids, labelNames, acc) ==
    IF ids = <<>> THEN acc
    ELSE LET id == Head(ids)
         IN IF id = "STARRED"
            THEN resolveAdds(Tail(ids), labelNames,
                             [acc EXCEPT !.Star = TRUE])
            ELSE IF id \in DOMAIN labelNames /\ labelNames[id] # <<>>
                 THEN resolveAdds(Tail(ids), labelNames,
                        [acc EXCEPT !.Labels = appendIfMissing(@, labelNames[id])])
                 ELSE resolveAdds(Tail(ids), labelNames, acc)

mapActions(action, labelNames) ==
    LET removed == Range(action.RemoveLabelIDs)
        base == [Archive |-> "INBOX" \in removed,
                 MarkRead |-> "UNREAD" \in removed,
                 Star |-> FALSE,
                 Labels |-> <<>>]
        added == resolveAdds(action.AddLabelIDs, labelNames, base)
    IN [added EXCEPT !.Labels = SortStrings(@)]

describeCriteria(c) ==
    IF c.From # <<>> THEN <<"f","r","o","m",":">> \o TrimSpace(c.From)
    ELSE IF c.List # <<>> THEN <<"l","i","s","t",":">> \o TrimSpace(c.List)
    ELSE IF c.Subject # <<>>
         THEN <<"s","u","b","j","e","c","t",":">> \o TrimSpace(c.Subject)
    ELSE IF c.Query # <<>> THEN TrimSpace(c.Query)
    ELSE <<"g","m","a","i","l","c","t","l","-","r","u","l","e">>

\* the label-name map of compileRules: the live id->name map, overridden by
\* the labels of the export that have both an id and a name
RECURSIVE mergeLabelNames(_, _)
mergeLabelNames(labels, names) ==
    IF labels = <<>> THEN names
    ELSE LET lbl == Head(labels)
         IN IF lbl.ID # "" /\ lbl.Name # <<>>
            THEN mergeLabelNames(Tail(labels),
                   [k \in DOMAIN names \cup {lbl.ID} |->
                       IF k = lbl.ID THEN lbl.Name ELSE names[k]])
            ELSE mergeLabelNames(Tail(labels), names)

ruleNameOf(filt) ==
    IF TrimSpace(filt.Name) # <<>> THEN TrimSpace(filt.Name)
    ELSE IF TrimSpace(filt.ID) # <<>> THEN TrimSpace(filt.ID)
    ELSE describeCriteria(filt.Criteria)

compileFilter(filt, labelNames) ==
    LET built == buildMatchers(filt.Criteria)
        actions == mapActions(filt.Action, labelNames)
    IN [Name |-> ruleNameOf(filt),
        Matchers |-> built.matchers,
        Actions |-> actions,
        Labels |-> actions.Labels,
        Evaluable |-> built.evaluable]

compileRules(export, labelsByID) ==
    LET labelNames == mergeLabelNames(export.Labels, labelsByID)
    IN [i \in 1..Len(export.Filters) |->
           compileFilter(export.Filters[i], labelNames)]

(***************************************************************************)
(* Replay engine.                                                          *)
(***************************************************************************)
\* matches[name] = append(matches[name], id)
appendMatch(matches, name, id) ==
    [k \in DOMAIN matches \cup {name} |->
        IF k = name THEN Append(Lookup(matches, name), id) ELSE matches[k]]

RECURSIVE evaluateRule(_, _, _)
evaluateRule(rule, metas, matches) ==
    IF metas = <<>> THEN matches
    ELSE evaluateRule(rule, Tail(metas),
           IF ruleMatches(rule, Head(metas))
           THEN appendMatch(matches, rule.Name, Head(metas).ID)
           ELSE matches)

\* evaluateFrom without the check of rule.Evaluable
RECURSIVE evaluateFrom_ReplaysAll(_, _, _)
evaluateFrom_ReplaysAll(rules, metas, matches) ==
    IF rules = <<>> THEN matches
    ELSE evaluateFrom_ReplaysAll(Tail(rules), metas,
           evaluateRule(Head(rules), metas, matches))

RECURSIVE evaluateFrom(_, _, _)
evaluateFrom(rules, metas, matches) ==
    IF rules = <<>> THEN matches
    ELSE evaluateFrom(Tail(rules), metas,
           IF Head(rules).Evaluable
           THEN evaluateRule(Head(rules), metas, matches)
           ELSE matches)

evaluateRules(rules, metas) == evaluateFrom(rules, metas, <<>>)

(***************************************************************************)
(* Conflict detection.                                                     *)
(***************************************************************************)
RECURSIVE addSummary(_, _, _)
addSummary(ids, summary, byMessage) ==
    IF ids = <<>> THEN byMessage
    ELSE addSummary(Tail(ids), summary,
           [k \in DOMAIN byMessage \cup {Head(ids)} |->
               IF k = Head(ids)
               THEN Append(Lookup(byMessage, Head(ids)), summary)
               ELSE byMessage[k]])

RECURSIVE collectFrom(_, _, _)
collectFrom(rules, matches, byMessage) ==
    IF rules = <<>> THEN byMessage
    ELSE LET rule == Head(rules)
             ids == Lookup(matches, rule.Name)
         IN collectFrom(Tail(rules), matches,
              IF Len(ids) = 0 THEN byMessage
              ELSE addSummary(ids, [Name |-> rule.Name, Actions |-> rule.Actions],
                              byMessage))

collectRuleSummaries(rules, matches) == collectFrom(rules, matches, <<>>)

RECURSIVE classifyFrom(_, _, _)
classifyFrom(summaries, archiveRules, starRules) ==
    IF summaries = <<>> THEN [archive |-> archiveRules, star |-> starRules]
    ELSE LET sm == Head(summaries)
         IN classifyFrom(Tail(summaries),
              IF sm.Actions.Archive THEN appendIfMissing(archiveRules, sm.Name)
              ELSE archiveRules,
              IF sm.Actions.Star THEN appendIfMissing(starRules, sm.Name)
              ELSE starRules)

classifySummaries(summaries) == classifyFrom(summaries, <<>>, <<>>)

RECURSIVE mergeInto(_, _)
mergeInto(combined, b) ==
    IF b = <<>> THEN combined
    ELSE mergeInto(appendIfMissing(combined, Head(b)), Tail(b))

mergeRuleSets(a, b) == SortStrings(mergeInto(a, b))

conflictKey(rules) == Join(rules, <<"|">>)

\* sort.Slice(conflicts, joined key <): insertion into an ascending sequence
RECURSIVE insertConflict(_, _)
insertConflict(sorted, c) ==
    IF sorted = <<>> THEN <<c>>
    ELSE IF StrLess(conflictKey(c.Rules), conflictKey(Head(sorted).Rules))
         THEN <<c>> \o sorted
         ELSE <<Head(sorted)>> \o insertConflict(Tail(sorted), c)

RECURSIVE sortConflicts(_)
sortConflicts(cs) ==
    IF cs = <<>> THEN <<>>
    ELSE insertConflict(sortConflicts(SubSeq(cs, 1, Len(cs) - 1)), cs[Len(cs)])

\* the loop over byMessage; order is the order in which the Go map hands out
\* its keys
RECURSIVE conflictLoop(_, _, _, _)
conflictLoop(order, byMessage, seen, conflicts) ==
    IF order = <<>> THEN conflicts
    ELSE LET cl == classifySummaries(byMessage[Head(order)])
             combined == mergeRuleSets(cl.archive, cl.star)
             key == conflictKey(combined)
         IN IF Len(cl.archive) = 0 \/ Len(cl.star) = 0 \/ key \in seen
            THEN conflictLoop(Tail(order), byMessage, seen, conflicts)
            ELSE conflictLoop(Tail(order), byMessage, seen \cup {key},
                   Append(conflicts,
                          [Rules |-> combined,
                           Description |-> "archive and star rules overlap"]))

\* detectConflicts without the final sort
detectConflicts_Unsorted(rules, matches, order) ==
    conflictLoop(order, collectRuleSummaries(rules, matches), {}, <<>>)

detectConflicts(rules, matches, order) ==
    sortConflicts(conflictLoop(order, collectRuleSummaries(rules, matches),
                               {}, <<>>))

\* the orders in which a Go map with key set S may be ranged over
Orders(S) == {o \in [1..Cardinality(S) -> S] : Range(o) = S}

(***************************************************************************)
(* Findings engine: the part of analyseGmailctl after the export is loaded.*)
(***************************************************************************)
NoFindings == [DeadRules |-> <<>>, MissingLabels |-> <<>>, Conflicts |-> <<>>]

\* missingFrom with a plain append in place of appendIfMissing
RECURSIVE missingFrom_NoDedup(_, _, _)
missingFrom_NoDedup(labels, existingLabels, missing) ==
    IF labels = <<>> THEN missing
    ELSE missingFrom_NoDedup(Tail(labels), existingLabels,
           IF Head(labels) \notin existingLabels
           THEN Append(missing, Head(labels))
           ELSE missing)

RECURSIVE missingFrom(_, _, _)
missingFrom(labels, existingLabels, missing) ==
    IF labels = <<>> THEN missing
    ELSE missingFrom(Tail(labels), existingLabels,
           IF Head(labels) \notin existingLabels
           THEN appendIfMissing(missing, Head(labels))
           ELSE missing)

\* findingsLoop with a rule reported dead whether it is evaluable or not
RECURSIVE findingsLoop_DeadWithoutEvaluable(_, _, _, _)
findingsLoop_DeadWithoutEvaluable(rules, matches, existingLabels, findings) ==
    IF rules = <<>> THEN findings
    ELSE LET rule == Head(rules)
             dead == IF Len(Lookup(matches, rule.Name)) = 0
                     THEN Append(findings.DeadRules,
                            [Name |-> rule.Name,
                             Reason |-> "no messages matched in lookback"])
                     ELSE findings.DeadRules
             missing == missingFrom(rule.Labels, existingLabels,
                                    findings.MissingLabels)
         IN findingsLoop_DeadWithoutEvaluable(Tail(rules), matches, existingLabels,
              [findings EXCEPT !.DeadRules = dead, !.MissingLabels = missing])

RECURSIVE findingsLoop(_, _, _, _)
findingsLoop(rules, matches, existingLabels, findings) ==
    IF rules = <<>> THEN findings
    ELSE LET rule == Head(rules)
             dead == IF Len(Lookup(matches, rule.Name)) = 0 /\ rule.Evaluable
                     THEN Append(findings.DeadRules,
                            [Name |-> rule.Name,
                             Reason |-> "no messages matched in lookback"])
                     ELSE findings.DeadRules
             missing == missingFrom(rule.Labels, existingLabels,
                                    findings.MissingLabels)
         IN findingsLoop(Tail(rules), matches, existingLabels,
              [findings EXCEPT !.DeadRules = dead, !.MissingLabels = missing])

computeFindings(compiled, matches, existingLabels, order) ==
    IF Len(compiled) = 0 THEN NoFindings
    ELSE [findingsLoop(compiled, matches, existingLabels, NoFindings)
            EXCEPT !.Conflicts = detectConflicts(compiled, matches, order)]

(***************************************************************************)
(* The environment: the mailbox behind the connector, its label catalog,   *)
(* and what the rule-export loader may return.                             *)
(***************************************************************************)
MsgIDs == {"m1", "m2"}

\* the metadata GetMetadata answers with
Mailbox ==
    [id \in MsgIDs |->
        CASE id = "m1" ->
               [ID |-> "m1", LabelIDs |-> <<"L1", "L9">>,
                Headers |-> [h \in {"From", "To", "Subject", "List-Id"} |->
                    CASE h = "From" -> <<"A"," ","<","a","@","x",">">>
                      [] h = "To" -> <<"m","e">>
                      [] h = "Subject" -> <<"H","i">>
                      [] h = "List-Id" -> <<"<","L",".","x",">">>]]
          [] id = "m2" ->
               [ID |-> "m2", LabelIDs |-> <<"L1">>,
                Headers |-> [h \in {"From", "Subject"} |->
                    CASE h = "From" -> <<"B","@","Y",".">>
                      [] h = "Subject" -> <<"y","o">>]]]

\* the label lists the Gmail API may answer ListLabels with
Catalogs == { <<[Id |-> "L1", Name |-> <<"b">>]>>,
              <<[Id |-> "L1", Name |-> <<"b">>], [Id |-> "L2", Name |-> <<"m">>]>> }

NoCriteria == [From |-> <<>>, To |-> <<>>, Subject |-> <<>>, List |-> <<>>,
               Query |-> <<>>]

NoAction == [AddLabelIDs |-> <<>>, RemoveLabelIDs |-> <<>>]

Filt(name, id, criteria, action) ==
    [Name |-> name, ID |-> id, Criteria |-> criteria, Action |-> action]

\* the filters an export is made of
FilterVocab == {
    \* archives list l.x
    Filt(<<"A">>, <<>>, [NoCriteria EXCEPT !.List = <<"l",".","x">>],
         [AddLabelIDs |-> <<"L1">>, RemoveLabelIDs |-> <<"INBOX">>]),
    \* stars and archives list l.x
    Filt(<<"B">>, <<>>, [NoCriteria EXCEPT !.List = <<"<","L",".","X",">">>],
         [AddLabelIDs |-> <<"STARRED">>, RemoveLabelIDs |-> <<"INBOX">>]),
    \* named like the first one, stars what comes from b@y
    Filt(<<" ","A">>, <<"i","1">>, [NoCriteria EXCEPT !.From = <<"b","@","y">>],
         [NoAction EXCEPT !.AddLabelIDs = <<"STARRED", "L2", "L3">>]),
    \* no name, no id: matches nothing in the mailbox
    Filt(<<>>, <<" ">>, [NoCriteria EXCEPT !.From = <<"z","z">>],
         [AddLabelIDs |-> <<"L2", "L1", "L2">>,
          RemoveLabelIDs |-> <<"UNREAD", "INBOX">>]),
    \* a negated query token next to a From criterion
    Filt(<<"B">>, <<>>,
         [NoCriteria EXCEPT !.From = <<"a","@","x">>,
                            !.Query = <<"t","o",":","m","e"," ","-","t","o",":","q">>],
         [AddLabelIDs |-> <<"STARRED">>, RemoveLabelIDs |-> <<"INBOX">>]),
    \* an unrecognized query token next to a Subject criterion
    Filt(<<>>, <<"D">>,
         [NoCriteria EXCEPT !.Subject = <<"h","i">>, !.Query = <<"(","h","i",")">>],
         [NoAction EXCEPT !.RemoveLabelIDs = <<"INBOX">>]),
    \* a From criterion of separators only
    Filt(<<"C">>, <<>>, [NoCriteria EXCEPT !.From = <<",","O","R">>],
         [NoAction EXCEPT !.RemoveLabelIDs = <<"INBOX">>]),
    \* a To criterion of separators only next to a List criterion
    Filt(<<"C">>, <<>>,
         [NoCriteria EXCEPT !.To = <<";">>, !.List = <<"x">>],
         [AddLabelIDs |-> <<"STARRED">>, RemoveLabelIDs |-> <<"INBOX">>]),
    \* a query of recognized tokens; archives and stars by itself
    Filt(<<>>, <<>>,
         [NoCriteria EXCEPT !.Query =
             <<"(","F","R","O","M",":","B"," ","O","R"," ","s","u","b","j","e","c","t",":","y",")">>],
         [AddLabelIDs |-> <<"STARRED">>, RemoveLabelIDs |-> <<"INBOX">>]),
    \* no criterion at all
    Filt(<<>>, <<>>, NoCriteria, [NoAction EXCEPT !.AddLabelIDs = <<"L2">>]) }

\* the label section of every export
ExportLabels == << [ID |-> "L2", Name |-> <<"m">>],
                   [ID |-> "L1", Name |-> <<>>],
                   [ID |-> "", Name |-> <<"q">>] >>

SeqsUpTo(S, n) == UNION {[1..k -> S] : k \in 0..n}

Exports == {[Filters |-> fs, Labels |-> ExportLabels] :
               fs \in SeqsUpTo(FilterVocab, MaxFilters)}

(***************************************************************************)
(* Connector adapter: ListLabels builds both maps from the label list.     *)
(***************************************************************************)
RECURSIVE labelsByIDFrom(_, _)
labelsByIDFrom(labels, byID) ==
    IF labels = <<>> THEN byID
    ELSE labelsByIDFrom(Tail(labels),
           [k \in DOMAIN byID \cup {Head(labels).Id} |->
               IF k = Head(labels).Id THEN Head(labels).Name ELSE byID[k]])

\* the key set of byName
labelNamesOf(labels) == {labels[i].Name : i \in DOMAIN labels}

(***************************************************************************)
(* Report assembly.                                                        *)
(***************************************************************************)
RECURSIVE coverLabels(_, _, _)
coverLabels(lids, labelsByID, coverage) ==
    IF lids = <<>> THEN coverage
    ELSE coverLabels(Tail(lids), labelsByID,
           IF Head(lids) \in DOMAIN labelsByID
           THEN LET name == labelsByID[Head(lids)]
                IN [k \in DOMAIN coverage \cup {name} |->
                       IF k = name
                       THEN (IF name \in DOMAIN coverage THEN coverage[name] ELSE 0) + 1
                       ELSE coverage[k]]
           ELSE coverage)

RECURSIVE buildCoverageFrom(_, _, _)
buildCoverageFrom(metas, labelsByID, coverage) ==
    IF metas = <<>> THEN coverage
    ELSE buildCoverageFrom(Tail(metas), labelsByID,
           coverLabels(Head(metas).LabelIDs, labelsByID, coverage))

buildCoverage(metas, labelsByID) == buildCoverageFrom(metas, labelsByID, <<>>)

(***************************************************************************)
(* Ranking and suggestions.  A SenderStat and a ListStat are both modelled *)
(* as [Key, Count, PreviewSubject].                                        *)
(***************************************************************************)
extractDomain(address) ==
    LET addr == ToLower(TrimSpace(address))
        ats == {i \in DOMAIN addr : addr[i] = "@"}
    IN IF addr = <<>> \/ ats = {} THEN <<>>
       ELSE LET at == CHOOSE i \in ats : \A j \in ats : j <= i
            IN Trim(SubSeq(addr, at + 1, Len(addr)), {".", " "})

(***************************************************************************)
(* Package net/mail, as far as domainOf uses it: ParseAddressList, with    *)
(* the addr-spec of every address and without the display names.  A parser *)
(* step answers [ok, rest, ...]: whether it succeeded and what is left of  *)
(* the input.  The decoded text of an RFC 2047 word only reaches           *)
(* Address.Name, so the decoders answer their error alone: "nil" or the    *)
(* kind of error.                                                          *)
(***************************************************************************)
mailSpecials == {"(", ")", "<", ">", "[", "]", ":", ";", "@", "\\", ",", "\""}

\* '!' <= r <= '~', or a character of more than one byte
isVchar(r) == r \in (Range(AsciiChars) \ {" "}) \cup {NEL, NBSP}

isWSP(r) == r \in {" ", "\t"}

isQtext(r) == r \notin {"\\", "\""} /\ isVchar(r)

isAtext(r, dot) == IF r = "." THEN dot ELSE r \notin mailSpecials /\ isVchar(r)

skipSpace(s) == TrimLeftSet(s, {" ", "\t"})

\* the answer of a step that failed and of one that succeeded; value is the
\* string consumed, or the addresses parsed
mailError(s) == [ok |-> FALSE, rest |-> s, value |-> <<>>, group |-> FALSE]

mailOK(s, v) == [ok |-> TRUE, rest |-> s, value |-> v, group |-> FALSE]

\* the element of a singleton: The({e : v \in {d}}) is e with the value of
\* d for v
The(S) == CHOOSE v \in S : TRUE

\* what follows the '(' of a comment, up to the ')' that closes it
\* with the text read so far; the ')' that closes it is not part of the text
RECURSIVE consumeComment(_, _, _)
consumeComment(s, depth, comment) ==
    IF s = <<>> \/ depth = 0
    THEN IF depth = 0 THEN mailOK(s, comment) ELSE mailError(s)
    ELSE IF Head(s) = "\\" /\ Len(s) > 1
         THEN consumeComment(Tail(Tail(s)), depth, Append(comment, s[2]))
         ELSE consumeComment(Tail(s),
                CASE Head(s) = "(" -> depth + 1
                  [] Head(s) = ")" -> depth - 1
                  [] OTHER -> depth,
                IF Head(s) = ")" /\ depth = 1 THEN comment
                ELSE Append(comment, Head(s)))

RECURSIVE skipCFWS(_)
skipCFWS(s) ==
    IF skipSpace(s) # <<>> /\ Head(skipSpace(s)) = "("
    THEN The({IF c.ok THEN skipCFWS(c.rest) ELSE mailError(c.rest) :
                c \in {consumeComment(Tail(skipSpace(s)), 1, <<>>)}})
    ELSE mailOK(skipSpace(s), <<>>)

\* consumeQuotedString after the opening quote
RECURSIVE quotedFrom(_, _, _)
quotedFrom(s, escaped, qs) ==
    IF s = <<>> THEN mailError(s)
    ELSE IF escaped
         THEN IF isVchar(Head(s)) \/ isWSP(Head(s))
              THEN quotedFrom(Tail(s), FALSE, Append(qs, Head(s)))
              ELSE mailError(s)
         ELSE IF isQtext(Head(s)) \/ isWSP(Head(s))
              THEN quotedFrom(Tail(s), FALSE, Append(qs, Head(s)))
              ELSE IF Head(s) = "\"" THEN mailOK(Tail(s), qs)
                   ELSE IF Head(s) = "\\" THEN quotedFrom(Tail(s), TRUE, qs)
                        ELSE mailError(s)

\* the input starts with a quote; it is left as it is on an error
consumeQuotedString(s) ==
    The({IF q.ok THEN q ELSE mailError(s) : q \in {quotedFrom(Tail(s), FALSE, <<>>)}})

RECURSIVE atomLen(_, _)
atomLen(s, dot) ==
    IF s # <<>> /\ isAtext(Head(s), dot) THEN 1 + atomLen(Tail(s), dot) ELSE 0

consumeAtom(s, dot, permissive) ==
    The({IF i = 0 THEN mailError(s)
         ELSE IF ~permissive /\ (\/ s[1] = "."
                                 \/ Contains(SubSeq(s, 1, i), <<".", ".">>)
                                 \/ s[i] = ".")
              THEN mailError(SubSeq(s, i + 1, Len(s)))
              ELSE mailOK(SubSeq(s, i + 1, Len(s)), SubSeq(s, 1, i)) :
           i \in {atomLen(s, dot)}})

\* the bytes of s: a character outside ASCII is two bytes outside ASCII
RECURSIVE utf8Bytes(_)
utf8Bytes(s) ==
    IF s = <<>> THEN <<>>
    ELSE IF Head(s) \in {NEL, NBSP}
         THEN <<Head(s), Head(s)>> \o utf8Bytes(Tail(s))
         ELSE <<Head(s)>> \o utf8Bytes(Tail(s))

DigitChars == {"0","1","2","3","4","5","6","7","8","9"}

HexChars == DigitChars \cup {"a","b","c","d","e","f","A","B","C","D","E","F"}

\* package mime, qDecode from byte i of b: the error
RECURSIVE qDecodeFrom(_, _)
qDecodeFrom(b, i) ==
    IF i > Len(b) THEN "nil"
    ELSE IF b[i] = "_" THEN qDecodeFrom(b, i + 1)
    ELSE IF b[i] = "="
         THEN IF i + 2 > Len(b) THEN "errInvalidWord"
              ELSE IF b[i + 1] \in HexChars /\ b[i + 2] \in HexChars
                   THEN qDecodeFrom(b, i + 3)
                   ELSE "invalid hex byte"
    ELSE IF b[i] \in Range(AsciiChars) \cup {"\n", "\r", "\t"}
         THEN qDecodeFrom(b, i + 1)
         ELSE "errInvalidWord"

qDecode(s) == qDecodeFrom(utf8Bytes(s), 1)

\* base64.StdEncoding.DecodeString: the error.  "\r" and "\n" are skipped,
\* the rest is quanta of four characters, the last one padded with one or
\* two '='
base64DecodeString(s) ==
    The({IF /\ Len(b) % 4 = 0
            /\ Len(b) - Len(TrimRightSet(b, {"="})) <= 2
            /\ \A i \in 1..Len(TrimRightSet(b, {"="})) :
                  b[i] \in Range(UpperChars) \cup Range(LowerChars) \cup DigitChars
                              \cup {"+", "/"}
         THEN "nil" ELSE "CorruptInputError" :
           b \in {SelectSeq(utf8Bytes(s), LAMBDA c : c \notin {"\r", "\n"})}})

\* package mime, decode: the error
decode(encoding, text) ==
    IF encoding \in {"B", "b"} THEN base64DecodeString(text)
    ELSE IF encoding \in {"Q", "q"} THEN qDecode(text)
         ELSE "errInvalidWord"

\* mime.WordDecoder.convert with the CharsetReader of net/mail: utf-8,
\* iso-8859-1 and us-ascii are converted, any other charset goes to the
\* CharsetReader, which answers charsetError
convert(charset) ==
    IF \/ EqualFold(<<"u","t","f","-","8">>, charset)
       \/ EqualFold(<<"i","s","o","-","8","8","5","9","-","1">>, charset)
       \/ EqualFold(<<"u","s","-","a","s","c","i","i">>, charset)
    THEN "nil" ELSE "charsetError"

\* mime.WordDecoder.Decode: the error.  word is "=?" charset "?" encoding
\* "?" text "?="
Decode(word) ==
    IF \/ Len(utf8Bytes(word)) < 8
       \/ ~HasPrefix(word, <<"=", "?">>)
       \/ ~HasSuffix(word, <<"?", "=">>)
       \/ Count(word, "?") # 4
    THEN "errInvalidWord"
    ELSE The({IF cs.before = <<>> \/ Len(utf8Bytes(Cut(cs.after, "?").before)) # 1
              THEN "errInvalidWord"
              ELSE The({IF err # "nil" THEN err ELSE convert(cs.before) :
                          err \in {decode(Cut(cs.after, "?").before[1],
                                          Cut(cs.after, "?").after)}}) :
                cs \in {Cut(SubSeq(word, 3, Len(word) - 2), "?")}})

\* only a charsetError is an error; a word that is not an encoded word is
\* taken as it stands
decodeRFC2047Word(s) ==
    The({[isEncoded |-> err \in {"nil", "charsetError"},
          err |-> IF err = "charsetError" THEN err ELSE "nil"] :
           err \in {Decode(s)}})

\* netip.parseIPv4Fields: whether s is four decimal fields of 0..255, none
\* with a leading zero; pos fields are complete and the one at i has the
\* value val in digLen digits
RECURSIVE ipv4FieldsFrom(_, _, _, _, _)
ipv4FieldsFrom(s, i, val, digLen, pos) ==
    IF i > Len(s) THEN pos = 3
    ELSE IF s[i] \in DigitChars
         THEN IF digLen = 1 /\ val = 0 THEN FALSE
              ELSE IF val * 10 + Ord(s[i]) - Ord("0") > 255 THEN FALSE
                   ELSE ipv4FieldsFrom(s, i + 1, val * 10 + Ord(s[i]) - Ord("0"),
                                       digLen + 1, pos)
         ELSE IF s[i] = "."
              THEN IF i = 1 \/ i = Len(s) \/ s[i - 1] = "." THEN FALSE
                   ELSE IF pos = 3 THEN FALSE
                        ELSE ipv4FieldsFrom(s, i + 1, 0, 0, pos + 1)
              ELSE FALSE

parseIPv4Fields(s) == ipv4FieldsFrom(s, 1, 0, 0, 0)

\* the loop of netip.parseIPv6 over the groups of hex digits.  s starts at a
\* group of which off digits are read, i counts the bytes of the address
\* filled, ellipsis is the place of "::" or -1.  At the end of s an address
\* that is not full needs an ellipsis and a full one has none
RECURSIVE ipv6Groups(_, _, _, _)
ipv6Groups(s, off, i, ellipsis) ==
    IF off = 0 /\ i >= 16 THEN s = <<>> /\ ellipsis < 0
    ELSE IF off < Len(s) /\ s[off + 1] \in HexChars
         THEN off < 4 /\ ipv6Groups(s, off + 1, i, ellipsis)
    ELSE IF off = 0 THEN FALSE
    ELSE IF off < Len(s) /\ s[off + 1] = "."
         THEN /\ ellipsis >= 0 \/ i = 12
              /\ i + 4 <= 16
              /\ parseIPv4Fields(s)
              /\ IF i + 4 < 16 THEN ellipsis >= 0 ELSE ellipsis < 0
    ELSE IF off = Len(s) THEN IF i + 2 < 16 THEN ellipsis >= 0 ELSE ellipsis < 0
    ELSE IF s[off + 1] # ":" \/ off + 1 = Len(s) THEN FALSE
    ELSE IF s[off + 2] # ":"
         THEN ipv6Groups(SubSeq(s, off + 2, Len(s)), 0, i + 2, ellipsis)
    ELSE IF ellipsis >= 0 THEN FALSE
    ELSE IF off + 2 = Len(s) THEN i + 2 < 16
    ELSE ipv6Groups(SubSeq(s, off + 3, Len(s)), 0, i + 2, i + 2)

\* netip.parseIPv6: whether in is an IPv6 address, and its zone, which is
\* what follows the first '%' and must not be empty if there is a '%'
parseIPv6(in) ==
    The({[ok |-> /\ z.found => z.after # <<>>
                 /\ IF HasPrefix(z.before, <<":", ":">>)
                    THEN \/ Len(z.before) = 2
                         \/ ipv6Groups(SubSeq(z.before, 3, Len(z.before)), 0, 0, 0)
                    ELSE ipv6Groups(z.before, 0, 0, -1),
          zone |-> z.after] :
           z \in {Cut(in, "%")}})

\* net.ParseIP(s) != nil: netip.ParseAddr by the first of '.', ':' and '%',
\* and no zone
ParseIP(s) ==
    /\ \E i \in DOMAIN s : s[i] \in {".", ":", "%"}
    /\ The({CASE first = "." -> parseIPv4Fields(s)
              [] first = ":" -> parseIPv6(s) = [ok |-> TRUE, zone |-> <<>>]
              [] OTHER -> FALSE :
              first \in {Head(TrimLeftSet(s, Range(s) \ {".", ":", "%"}))}})

isDtext(r) == r \notin {"[", "]", "\\"} /\ isVchar(r)

\* "[" dtext "]", the dtext an IP address; the input is left as it is on an
\* error
consumeDomainLiteral(s) ==
    IF s = <<>> \/ Head(s) # "[" THEN mailError(s)
    ELSE The({IF /\ Len(s) >= Len(dtext) + 2
                 /\ s[Len(dtext) + 2] = "]"
                 /\ ParseIP(dtext)
              THEN mailOK(SubSeq(s, Len(dtext) + 3, Len(s)),
                          SubSeq(s, 1, Len(dtext) + 2))
              ELSE mailError(s) :
                dtext \in {SubSeq(s, 2, Len(s) - Len(TrimLeftSet(Tail(s),
                              {c \in Range(s) : isDtext(c)})))}})

\* the local part of an addr-spec: a quoted string that is not empty, or a
\* dot-atom
consumeLocalPart(s) ==
    IF Head(s) = "\""
    THEN The({IF q.ok /\ q.value = <<>> THEN mailError(s) ELSE q :
                q \in {consumeQuotedString(s)}})
    ELSE consumeAtom(s, TRUE, FALSE)

\* local-part "@" domain; the input is left as it is on an error
consumeAddrSpec(s) ==
    IF skipSpace(s) = <<>> THEN mailError(s)
    ELSE The({
        IF ~localPart.ok \/ localPart.rest = <<>> \/ Head(localPart.rest) # "@"
           \/ skipSpace(Tail(localPart.rest)) = <<>>
        THEN mailError(s)
        ELSE The({IF domain.ok
                  THEN mailOK(domain.rest,
                              localPart.value \o <<"@">> \o domain.value)
                  ELSE mailError(s) :
                    domain \in {IF Head(skipSpace(Tail(localPart.rest))) = "["
                                THEN consumeDomainLiteral(
                                        skipSpace(Tail(localPart.rest)))
                                ELSE consumeAtom(skipSpace(Tail(localPart.rest)),
                                                 TRUE, FALSE)}}) :
          localPart \in {consumeLocalPart(skipSpace(s))}})

\* a word of a phrase: a quoted string, or an atom, which is an error after
\* the atom if its charset is not supported
consumeWord(s) ==
    IF Head(s) = "\"" THEN consumeQuotedString(s)
    ELSE The({IF atom.ok /\ decodeRFC2047Word(atom.value).err # "nil"
              THEN mailError(atom.rest) ELSE atom :
                atom \in {consumeAtom(s, TRUE, TRUE)}})

\* consumePhrase after words words: an error only if there is no word
RECURSIVE phraseFrom(_, _)
phraseFrom(s, words) ==
    The({
        IF ~c.ok THEN mailError(c.rest)
        ELSE IF skipSpace(c.rest) = <<>> THEN mailOK(<<>>, <<>>)
        ELSE The({IF w.ok THEN phraseFrom(w.rest, words + 1)
                  ELSE IF words > 0 THEN mailOK(w.rest, <<>>)
                       ELSE mailError(w.rest) :
                    w \in {consumeWord(skipSpace(c.rest))}}) :
          c \in {IF words > 0 THEN skipCFWS(s) ELSE mailOK(s, <<>>)}})

consumePhrase(s) == phraseFrom(s, 0)

\* a comment as display name: an error if it is not closed or if the charset
\* of one of its words is not supported
consumeDisplayNameComment(s) ==
    IF s = <<>> \/ Head(s) # "(" THEN mailError(s)
    ELSE The({IF /\ c.ok
                 /\ \A w \in Range(FieldsFunc(c.value, {" ", "\t"})) :
                        decodeRFC2047Word(w).err = "nil"
              THEN c ELSE mailError(c.rest) :
                c \in {consumeComment(Tail(s), 1, <<>>)}})

\* parseAddress after the display name: the ':' of a group, or "<" addr-spec
\* ">"
consumeAngleAddr(s, handleGroup) ==
    IF handleGroup /\ s # <<>> /\ Head(s) = ":"
    THEN [mailOK(Tail(s), <<>>) EXCEPT !.group = TRUE]
    ELSE IF s = <<>> \/ Head(s) # "<" THEN mailError(s)
         ELSE The({IF inner.ok /\ inner.rest # <<>> /\ Head(inner.rest) = ">"
                   THEN mailOK(Tail(inner.rest), <<inner.value>>)
                   ELSE mailError(s) :
                     inner \in {consumeAddrSpec(Tail(s))}})

\* parseAddress up to the ':' of a group: addr-spec with an optional
\* comment, or [phrase] "<" addr-spec ">"; group says that what is left is
\* the list of a group
parseAddressHead(s, handleGroup) ==
    IF skipSpace(s) = <<>> THEN mailError(<<>>)
    ELSE The({
        IF spec.ok
        THEN IF skipSpace(spec.rest) # <<>> /\ Head(skipSpace(spec.rest)) = "("
             THEN The({IF c.ok THEN mailOK(c.rest, <<spec.value>>)
                       ELSE mailError(c.rest) :
                         c \in {consumeDisplayNameComment(skipSpace(spec.rest))}})
             ELSE mailOK(skipSpace(spec.rest), <<spec.value>>)
        ELSE The({IF phrase.ok
                  THEN consumeAngleAddr(skipSpace(phrase.rest), handleGroup)
                  ELSE mailError(skipSpace(s)) :
                    phrase \in {IF Head(skipSpace(s)) # "<"
                                THEN consumePhrase(skipSpace(s))
                                ELSE mailOK(skipSpace(s), <<>>)}}) :
          spec \in {consumeAddrSpec(skipSpace(s))}})

\* the loop of consumeGroupList: parseAddress(false), then ';' or ','
RECURSIVE groupFrom(_, _)
groupFrom(s, group) ==
    The({
        IF ~a.ok THEN mailError(s)
        ELSE The({
            IF ~c.ok THEN mailError(s)
            ELSE IF c.rest # <<>> /\ Head(c.rest) = ";"
                 THEN The({IF e.ok THEN mailOK(e.rest, group \o a.value)
                           ELSE mailError(s) :
                             e \in {skipCFWS(Tail(c.rest))}})
                 ELSE IF c.rest # <<>> /\ Head(c.rest) = ","
                      THEN groupFrom(Tail(c.rest), group \o a.value)
                      ELSE mailError(s) :
              c \in {skipCFWS(a.rest)}}) :
          a \in {parseAddressHead(skipSpace(s), FALSE)}})

\* what follows the ':' of a group
consumeGroupList(s) ==
    IF skipSpace(s) # <<>> /\ Head(skipSpace(s)) = ";"
    THEN The({IF e.ok THEN mailOK(e.rest, <<>>) ELSE mailError(s) :
                e \in {skipCFWS(Tail(skipSpace(s)))}})
    ELSE groupFrom(skipSpace(s), <<>>)

parseAddress(s, handleGroup) ==
    The({IF a.ok /\ a.group THEN consumeGroupList(a.rest) ELSE a :
           a \in {parseAddressHead(s, handleGroup)}})

\* the empty entries after an address
RECURSIVE skipCommas(_)
skipCommas(s) ==
    IF s # <<>> /\ Head(s) = "," THEN skipCommas(skipSpace(Tail(s))) ELSE s

RECURSIVE parseAddressList(_, _)
parseAddressList(s, list) ==
    IF skipSpace(s) # <<>> /\ Head(skipSpace(s)) = ","
    THEN parseAddressList(Tail(skipSpace(s)), list)
    ELSE The({
        IF ~a.ok THEN mailError(a.rest)
        ELSE The({
            IF ~c.ok THEN mailError(c.rest)
            ELSE IF c.rest = <<>> THEN mailOK(c.rest, list \o a.value)
            ELSE IF Head(c.rest) # "," THEN mailError(c.rest)
            ELSE IF skipCommas(c.rest) = <<>>
                 THEN mailOK(<<>>, list \o a.value)
                 ELSE parseAddressList(skipCommas(c.rest), list \o a.value) :
              c \in {skipCFWS(a.rest)}}) :
          a \in {parseAddress(skipSpace(s), TRUE)}})

ParseAddressList(list) == parseAddressList(list, <<>>)

\* the first address with a domain
RECURSIVE firstDomain(_)
firstDomain(addrs) ==
    IF addrs = <<>> THEN <<>>
    ELSE IF extractDomain(Head(addrs)) # <<>> THEN extractDomain(Head(addrs))
         ELSE firstDomain(Tail(addrs))

domainOf(from) ==
    IF TrimSpace(from) = <<>> THEN <<>>
    ELSE The({IF addrs.ok THEN firstDomain(addrs.value)
              ELSE extractDomain(TrimSpace(from)) :
                addrs \in {ParseAddressList(TrimSpace(from))}})

\* st.Count++ and the first non-empty subject, for key in the tally
bump(tally, key, subject) ==
    [k \in DOMAIN tally \cup {key} |->
        IF k # key THEN tally[k]
        ELSE LET st == IF key \in DOMAIN tally THEN tally[key]
                       ELSE [Key |-> key, Count |-> 0, PreviewSubject |-> <<>>]
             IN [st EXCEPT !.Count = @ + 1,
                           !.PreviewSubject = IF @ = <<>> THEN subject ELSE @]]

RECURSIVE tallyFrom(_, _)
tallyFrom(metas, tallies) ==
    LET tally(domain, lid, subject) ==
            [senders |-> IF domain # <<>>
                         THEN bump(tallies.senders, domain, subject)
                         ELSE tallies.senders,
             lists |-> IF lid # <<>>
                       THEN bump(tallies.lists, lid, subject)
                       ELSE tallies.lists]
        one(meta) == tally(domainOf(Lookup(meta.Headers, "From")),
                           normalizeListID(Lookup(meta.Headers, "List-Id")),
                           Lookup(meta.Headers, "Subject"))
    IN IF metas = <<>> THEN tallies ELSE tallyFrom(Tail(metas), one(Head(metas)))

\* a less function that looks at the counts only
statBefore_CountOnly(a, b) == a.Count > b.Count

\* the less function of rankSenders and rankLists
statBefore(a, b) ==
    IF a.Count = b.Count THEN StrLess(a.Key, b.Key) ELSE a.Count > b.Count

RECURSIVE insertStat(_, _)
insertStat(sorted, st) ==
    IF sorted = <<>> THEN <<st>>
    ELSE IF statBefore(st, Head(sorted))
         THEN <<st>> \o sorted
         ELSE <<Head(sorted)>> \o insertStat(Tail(sorted), st)

\* the values of the map m, sorted (the keys are distinct, so the order in
\* which the map hands them out does not show)
RECURSIVE sortStats(_)
sortStats(m) ==
    IF DOMAIN m = {} THEN <<>>
    ELSE LET k == CHOOSE x \in DOMAIN m : TRUE
         IN insertStat(sortStats([y \in DOMAIN m \ {k} |-> m[y]]), m[k])

\* the values of the map m appended in the order the range loop hands them out
sliceIn(m, order) == [i \in DOMAIN order |-> m[order[i]]]

\* sort.Slice with the less function of rankSenders and rankLists
RECURSIVE sortSlice(_)
sortSlice(slice) ==
    IF slice = <<>> THEN <<>>
    ELSE insertStat(sortSlice(SubSeq(slice, 1, Len(slice) - 1)), slice[Len(slice)])

\* rankSenders and rankLists when the map is ranged over in the given order
rankIn(m, topN, order) ==
    LET slice == sortSlice(sliceIn(m, order))
    IN IF topN < Len(slice) THEN SubSeq(slice, 1, topN) ELSE slice

rankSenders(m, topN) ==
    LET slice == sortStats(m)
    IN IF topN < Len(slice) THEN SubSeq(slice, 1, topN) ELSE slice

rankLists(m, topN) ==
    LET slice == sortStats(m)
    IN IF topN < Len(slice) THEN SubSeq(slice, 1, topN) ELSE slice

buildRankings(metas, topN) ==
    LET ranked(tallies) == [TopSenders |-> rankSenders(tallies.senders, topN),
                            TopLists |-> rankLists(tallies.lists, topN)]
    IN ranked(tallyFrom(metas, [senders |-> <<>>, lists |-> <<>>]))

maxRules == 10

\* a snippet is modelled by what is formatted into it: list id or domain
buildArchiveRules(lists, senders) ==
    LET all == [i \in DOMAIN lists |-> [filter |-> "list", key |-> lists[i].Key]]
               \o [i \in DOMAIN senders |->
                      [filter |-> "from", key |-> senders[i].Key]]
    IN IF Len(all) > maxRules THEN SubSeq(all, 1, maxRules) ELSE all

ZeroReport == [Window |-> 0, Total |-> 0, TopSenders |-> <<>>, TopLists |-> <<>>,
               Coverage |-> <<>>, ArchiveRules |-> <<>>, RemoveRules |-> <<>>,
               Smells |-> <<>>, Findings |-> NoFindings]

\* opts.TopN as chronosweep-lint passes it
TopN == 0

defaultTopN == 20

\* opts.TopN taken as it comes
effectiveTopN_NoDefault(topN) == topN

\* Run: topN := opts.TopN, or 20 if that is not positive
effectiveTopN(topN) == IF topN <= 0 THEN defaultTopN ELSE topN

\* Run up to the call of analyseGmailctl: rep with rankings, suggestions and
\* coverage (GeneratedAt, the clock reading, is left out)
assembleReport(window, metas, labelsByID) ==
    LET ranked(ranks) ==
            [ZeroReport EXCEPT
               !.Window = window,
               !.Total = Len(metas),
               !.TopSenders = ranks.TopSenders,
               !.TopLists = ranks.TopLists,
               !.ArchiveRules = buildArchiveRules(ranks.TopLists, ranks.TopSenders),
               !.Coverage = buildCoverage(metas, labelsByID)]
    IN IF Len(metas) = 0 THEN [ZeroReport EXCEPT !.Window = window]
       ELSE ranked(buildRankings(metas, effectiveTopN(TopN)))

\* Run returns before it has a report
Failed(msg) == [rep |-> ZeroReport, err |-> msg]

\* analyseFailed that hands back the report assembled so far
analyseFailed_KeepsReport(rep) == [rep |-> rep, err |-> "load gmailctl filters"]

\* Run returns when analyseGmailctl fails; rep is the report assembled so far
analyseFailed(rep) == [rep |-> ZeroReport, err |-> "load gmailctl filters"]

\* Run returns the report with the findings
Succeeded(rep, findings) ==
    [rep |-> [rep EXCEPT !.Findings = findings,
                         !.RemoveRules = findings.DeadRules,
                         !.Smells = findings.Conflicts],
     err |-> ""]

(***************************************************************************)
(* Service.Run as a state machine: one step per call to a collaborator.    *)
(***************************************************************************)
VARIABLES
    pc,             \* where Run is: start, labels, list, meta, report, done
    window,         \* opts.Window, in hours
    limiter,        \* s.Limiter # nil
    loader,         \* s.Loader # nil
    labelsByID,     \* ListLabels: id -> name
    existingLabels, \* ListLabels: the names
    token,          \* fetchMetadata: page token of the next List, 0 for "";
                    \* the connector hands out 1, 2, ... as NextPageToken
    pageIDs,        \* fetchMetadata: ids of the current page still to fetch
    pageNext,       \* fetchMetadata: NextPageToken of the current page
    chunk,          \* messageMetadata: metadata fetched for the current page
    metas,          \* fetchMetadata: the sample so far
    listed,         \* every id the connector has listed, in order
    export,         \* what ExportFilters returned
    compiled,       \* analyseGmailctl: the compiled rules
    matches,        \* analyseGmailctl: the replay map
    result,         \* what Run returned: [rep, err]
    ctxDone,        \* ctx.Done() is closed: the caller cancelled
    lateCall,       \* a List or GetMetadata call was issued after ctxDone
    calls           \* the connector methods called, and the ExportFilters calls

\* the variables of the other state machines of this module
VARIABLES
    fn, input, output,              \* a function, its arguments, its result
    spc, flags, inbox, pending, swept, sweepErr,    \* chronosweep-sweep
    srPc,           \* where sweep's Service.Run is: start, list, ensure, batch, done
    srSpec,         \* its Spec, and whether the clock reads a weekend day
    srLimiter,      \* s.Limiter # nil
    srIds,          \* collectMessageIDs: len(ids) so far
    srPage,         \* collectMessageIDs: page
    srStart,        \* applyBatches: start
    srCalls,        \* the calls of s.Client, in order
    srErr,          \* the error Run returned
    rps,            \* TokenBucket: cap(tokens)
    tokens,         \* TokenBucket: len(tokens)
    tickerC,        \* ticker.C: ticks buffered, closed or not
    tickerOn,       \* the ticker has not been stopped
    ticks,          \* ticker periods begun
    waits,          \* the period of each Wait that returned nil
    stopPc,         \* where Stop is: none, blocked, returned
    stopDone,       \* stopDone is closed
    runPc           \* where run is: range, select, returned

runVars == <<pc, window, limiter, loader, labelsByID, existingLabels,
                   token, pageIDs, pageNext, chunk, metas, listed, export, compiled,
             matches, result, ctxDone, lateCall, calls>>

fnVars == <<fn, input, output>>

sweepVars == <<spc, flags, inbox, pending, swept, sweepErr>>

passVars == <<srPc, srSpec, srLimiter, srIds, srPage, srStart, srCalls, srErr>>

bucketVars == <<rps, tokens, tickerC, tickerOn, ticks, waits, stopPc, stopDone,
                runPc>>

vars == <<runVars, fnVars, sweepVars, passVars, bucketVars>>

\* no function is being applied
FnIdle == fn = "none" /\ input = <<>> /\ output = <<>>

\* chronosweep-sweep is not running
SweepIdle ==
    /\ spc = "idle"
    /\ flags = <<>>
    /\ inbox = <<>>
    /\ pending = {}
    /\ swept = {}
    /\ sweepErr = ""

\* sweep's Service.Run is not running
PassIdle ==
    /\ srPc = "idle"
    /\ srSpec = <<>>
    /\ srLimiter = FALSE
    /\ srIds = 0
    /\ srPage = 0
    /\ srStart = 0
    /\ srCalls = <<>>
    /\ srErr = ""

\* no TokenBucket has been made
BucketIdle ==
    /\ rps = 0
    /\ tokens = 0
    /\ tickerC = [buf |-> 0, closed |-> FALSE]
    /\ tickerOn = FALSE
    /\ ticks = 0
    /\ waits = <<>>
    /\ stopPc = "none"
    /\ stopDone = FALSE
    /\ runPc = "idle"

NoCalls == [Client |-> {}, ExportFilters |-> 0]

\* Run calls method op of s.Client
called(log, op) == [log EXCEPT !.Client = @ \cup {op}]

\* Run calls s.Loader.ExportFilters
exported(log) == [log EXCEPT !.ExportFilters = @ + 1]

MaxPages == 2

Windows == {0, 48}

NoExport == [Filters |-> <<>>, Labels |-> <<>>]

NoResult == [rep |-> ZeroReport, err |-> "pending"]

Init ==
    /\ pc = "start"
    /\ window \in Windows
    /\ limiter \in BOOLEAN
    /\ loader \in BOOLEAN
    /\ labelsByID = <<>>
    /\ existingLabels = {}
    /\ token = 0
    /\ pageIDs = <<>>
    /\ pageNext = 0
    /\ chunk = <<>>
    /\ metas = <<>>
    /\ listed = <<>>
    /\ export = NoExport
    /\ compiled = <<>>
    /\ matches = <<>>
    /\ result = NoResult
    /\ ctxDone = FALSE
    /\ lateCall = FALSE
    /\ calls = NoCalls
    /\ FnIdle
    /\ SweepIdle
    /\ PassIdle
    /\ BucketIdle

\* s.wait: nil limiter never fails; a limiter's Wait may return an error
WaitOutcomes == IF limiter THEN {TRUE, FALSE} ELSE {TRUE}

\* Run returns (rep, err); the locals of fetchMetadata are gone
Return(r) ==
    /\ pc' = "done"
    /\ result' = r
    /\ token' = 0
    /\ pageIDs' = <<>>
    /\ pageNext' = 0
    /\ chunk' = <<>>

\* Run that goes on to ListLabels whatever the window is
RunStart_NoWindowCheck ==
    /\ pc = "start"
    /\ pc' = "labels"
    /\ UNCHANGED <<result, token, pageIDs, pageNext, chunk>>
    /\ UNCHANGED <<window, limiter, loader, labelsByID, existingLabels,
                   metas, listed, export, compiled, matches>>
    /\ UNCHANGED <<ctxDone, lateCall, calls, fnVars, sweepVars, passVars, bucketVars>>

\* Run, up to the ListLabels call
RunStart ==
    /\ pc = "start"
    /\ IF window <= 0
       THEN /\ Return(Failed("window must be positive"))
       ELSE /\ pc' = "labels"
            /\ UNCHANGED <<result, token, pageIDs, pageNext, chunk>>
    /\ UNCHANGED <<window, limiter, loader, labelsByID, existingLabels,
                   metas, listed, export, compiled, matches>>
    /\ UNCHANGED <<ctxDone, lateCall, calls, fnVars, sweepVars, passVars, bucketVars>>

\* s.Client.ListLabels answers
ListLabels(ok, labels) ==
    /\ pc = "labels"
    /\ IF ~ok
       THEN /\ Return(Failed("list labels"))
            /\ UNCHANGED <<labelsByID, existingLabels>>
       ELSE /\ labelsByID' = labelsByIDFrom(labels, <<>>)
            /\ existingLabels' = labelNamesOf(labels)
            /\ pc' = "list"
            /\ UNCHANGED <<result, token, pageIDs, pageNext, chunk>>
    /\ calls' = called(calls, "ListLabels")
    /\ UNCHANGED <<window, limiter, loader, metas, listed, export,
                   compiled, matches>>
    /\ UNCHANGED <<ctxDone, lateCall, fnVars, sweepVars, passVars, bucketVars>>

\* fetchMetadata leaves its loop
FetchDone(sample) ==
    /\ pc' = "report"
    /\ metas' = sample
    /\ token' = 0
    /\ pageIDs' = <<>>
    /\ pageNext' = 0
    /\ chunk' = <<>>
    /\ UNCHANGED result

\* s.listMessages: the pacing wait returns, and on nil s.Client.List is
\* called
ListCall(waitOK) ==
    /\ pc = "list"
    /\ IF ~waitOK
       THEN /\ Return(Failed("rate limit messages"))
            /\ UNCHANGED calls
       ELSE /\ pc' = "listing"
            /\ calls' = called(calls, "List")
            /\ UNCHANGED <<result, token, pageIDs, pageNext, chunk>>
    /\ lateCall' = (lateCall \/ (waitOK /\ ctxDone))
    /\ UNCHANGED <<window, limiter, loader, labelsByID, existingLabels,
                   metas, listed, export, compiled, matches>>
    /\ UNCHANGED <<ctxDone, fnVars, sweepVars, passVars, bucketVars>>

\* s.Client.List answers, with an error or with a page, and fetchMetadata
\* goes on from there
ListPage(ok, ids, more) ==
    /\ pc = "listing"
    /\ more => token + 1 < MaxPages
    /\ Len(listed) + Len(ids) <= MaxMsgs
    /\ IF ~ok
       THEN /\ Return(Failed("list messages"))
            /\ UNCHANGED <<metas, listed>>
       ELSE /\ listed' = listed \o ids
            /\ LET next == IF more THEN token + 1 ELSE 0
               IN IF Len(ids) = 0
                  THEN IF next = 0
                       THEN FetchDone(metas)
                       ELSE /\ pc' = "list"
                            /\ token' = next
                            /\ UNCHANGED <<result, pageIDs, pageNext, chunk, metas>>
                  ELSE /\ pc' = "meta"
                       /\ pageIDs' = ids
                       /\ pageNext' = next
                       /\ chunk' = <<>>
                       /\ UNCHANGED <<result, token, metas>>
    /\ UNCHANGED <<window, limiter, loader, labelsByID, existingLabels, export,
                   compiled, matches>>
    /\ UNCHANGED <<ctxDone, lateCall, calls, fnVars, sweepVars, passVars, bucketVars>>

\* s.messageMetadata, one id: the pacing wait returns, and on nil
\* s.Client.GetMetadata is called
GetMetadataCall(waitOK) ==
    /\ pc = "meta"
    /\ IF ~waitOK
       THEN /\ Return(Failed("rate limit metadata"))
            /\ UNCHANGED calls
       ELSE /\ pc' = "getting"
            /\ calls' = called(calls, "GetMetadata")
            /\ UNCHANGED <<result, token, pageIDs, pageNext, chunk>>
    /\ lateCall' = (lateCall \/ (waitOK /\ ctxDone))
    /\ UNCHANGED <<window, limiter, loader, labelsByID, existingLabels,
                   metas, listed, export, compiled, matches>>
    /\ UNCHANGED <<ctxDone, fnVars, sweepVars, passVars, bucketVars>>

\* s.Client.GetMetadata answers, with an error or with the metadata of the
\* id, and messageMetadata goes on from there
GetMetadata(ok) ==
    /\ pc = "getting"
    /\ IF ~ok
       THEN /\ Return(Failed("get metadata"))
            /\ UNCHANGED metas
       ELSE LET fetched == Append(chunk, Mailbox[Head(pageIDs)])
            IN IF Len(pageIDs) > 1
               THEN /\ pc' = "meta"
                    /\ pageIDs' = Tail(pageIDs)
                    /\ chunk' = fetched
                    /\ UNCHANGED <<result, token, pageNext, metas>>
               ELSE IF pageNext = 0
                    THEN FetchDone(metas \o fetched)
                    ELSE /\ pc' = "list"
                         /\ metas' = metas \o fetched
                         /\ token' = pageNext
                         /\ pageIDs' = <<>>
                         /\ pageNext' = 0
                         /\ chunk' = <<>>
                         /\ UNCHANGED result
    /\ UNCHANGED <<window, limiter, loader, labelsByID, existingLabels,
                   listed, export, compiled, matches>>
    /\ UNCHANGED <<ctxDone, lateCall, calls, fnVars, sweepVars, passVars, bucketVars>>

\* ExportFilters is skipped for an empty sample
loaderInvoked_OnEmptySample(sample, hasLoader) == hasLoader

\* ExportFilters is called without the nil test
loaderInvoked_WithoutLoader(sample, hasLoader) == Len(sample) > 0

\* Run gets to s.Loader.ExportFilters: it has not returned on an empty
\* sample and analyseGmailctl has not returned on a nil Loader
loaderInvoked(sample, hasLoader) == Len(sample) > 0 /\ hasLoader

\* Run after fetchMetadata, for an empty sample or without a loader
ReportPlain ==
    /\ pc = "report"
    /\ ~loaderInvoked(metas, loader)
    /\ IF Len(metas) = 0
       THEN Return([rep |-> assembleReport(window, metas, labelsByID), err |-> ""])
       ELSE Return(Succeeded(assembleReport(window, metas, labelsByID), NoFindings))
    /\ UNCHANGED <<window, limiter, loader, labelsByID, existingLabels,
                   metas, listed, export, compiled, matches>>
    /\ UNCHANGED <<ctxDone, lateCall, calls, fnVars, sweepVars, passVars, bucketVars>>

\* Run after fetchMetadata: s.Loader.ExportFilters fails
ReportLoadError ==
    /\ pc = "report"
    /\ loaderInvoked(metas, loader)
    /\ Return(analyseFailed(assembleReport(window, metas, labelsByID)))
    /\ calls' = exported(calls)
    /\ UNCHANGED <<window, limiter, loader, labelsByID, existingLabels,
                   metas, listed, export, compiled, matches>>
    /\ UNCHANGED <<ctxDone, lateCall, fnVars, sweepVars, passVars, bucketVars>>

\* Run after fetchMetadata: s.Loader.ExportFilters answers with exp; order is
\* the order in which detectConflicts ranges over its map
ReportFindings(exp) ==
    /\ pc = "report"
    /\ loaderInvoked(metas, loader)
    /\ \E rep \in {assembleReport(window, metas, labelsByID)},
          rules \in {compileRules(exp, labelsByID)} :
       \E replay \in {IF Len(rules) = 0 THEN <<>> ELSE evaluateRules(rules, metas)} :
       \E order \in Orders(DOMAIN collectRuleSummaries(rules, replay)) :
          /\ export' = exp
          /\ compiled' = rules
          /\ matches' = replay
          /\ Return(Succeeded(rep, computeFindings(rules, replay, existingLabels,
                                                   order)))
    /\ calls' = exported(calls)
    /\ UNCHANGED <<window, limiter, loader, labelsByID, existingLabels,
                   metas, listed>>
    /\ UNCHANGED <<ctxDone, lateCall, fnVars, sweepVars, passVars, bucketVars>>

Next ==
    \/ RunStart
    \/ \E ok \in BOOLEAN, labels \in Catalogs : ListLabels(ok, labels)
    \/ \E waitOK \in WaitOutcomes : ListCall(waitOK)
    \/ \E ok \in BOOLEAN, more \in BOOLEAN, ids \in SeqsUpTo(MsgIDs, MaxMsgs) :
          ListPage(ok, ids, more)
    \/ \E waitOK \in WaitOutcomes : GetMetadataCall(waitOK)
    \/ \E ok \in BOOLEAN : GetMetadata(ok)
    \/ ReportPlain
    \/ ReportLoadError
    \/ \E exp \in Exports : ReportFindings(exp)

Spec == Init /\ [][Next]_vars

\* Run of a Service built without a limiter (-rps 0): every wait returns nil
UnpacedInit == Init /\ ~limiter

UnpacedSpec == UnpacedInit /\ [][Next]_vars

(***************************************************************************)
(* Run under cancellation: the limiter, if any, is a TokenBucket that has  *)
(* tokens, and the caller may close ctx.Done() while Run is fetching.      *)
(***************************************************************************)
\* TokenBucket.Wait with a token in the channel: once ctx.Done() is closed
\* both cases of the select are ready and either is taken
TokenBucketWait(done) == IF done THEN {TRUE, FALSE} ELSE {TRUE}

\* s.wait: nil for a nil limiter, else what the bucket answers
BucketWaitOutcomes == IF limiter THEN TokenBucketWait(ctxDone) ELSE {TRUE}

\* the caller cancels ctx while fetchMetadata is in its loop, between two
\* calls or while a call is in flight
Cancel ==
    /\ pc \in {"list", "listing", "meta", "getting"}
    /\ ~ctxDone
    /\ ctxDone' = TRUE
    /\ UNCHANGED <<pc, window, limiter, loader, labelsByID, existingLabels,
                   token, pageIDs, pageNext, chunk, metas, listed,
                   export, compiled, matches, result, lateCall, calls>>
    /\ UNCHANGED <<fnVars, sweepVars, passVars, bucketVars>>

CancelInit == Init /\ ~loader

CancelNext ==
    \/ RunStart
    \/ \E ok \in BOOLEAN, labels \in Catalogs : ListLabels(ok, labels)
    \/ \E waitOK \in BucketWaitOutcomes : ListCall(waitOK)
    \/ \E ok \in BOOLEAN, more \in BOOLEAN, ids \in SeqsUpTo(MsgIDs, MaxMsgs) :
          ListPage(ok, ids, more)
    \/ \E waitOK \in BucketWaitOutcomes : GetMetadataCall(waitOK)
    \/ \E ok \in BOOLEAN : GetMetadata(ok)
    \/ ReportPlain
    \/ Cancel

CancelSpec == CancelInit /\ [][CancelNext]_vars

(***************************************************************************)
(* Functions applied on their own: the arguments are drawn in the initial  *)
(* state and one step applies the function.  output is <<>> until then and *)
(* <<result>> afterwards.                                                  *)
(***************************************************************************)
\* Service.Run is not running
RunIdle ==
    /\ pc = "idle"
    /\ window = 0
    /\ limiter = FALSE
    /\ loader = FALSE
    /\ labelsByID = <<>>
    /\ existingLabels = {}
    /\ token = 0
    /\ pageIDs = <<>>
    /\ pageNext = 0
    /\ chunk = <<>>
    /\ metas = <<>>
    /\ listed = <<>>
    /\ export = NoExport
    /\ compiled = <<>>
    /\ matches = <<>>
    /\ result = NoResult
    /\ ctxDone = FALSE
    /\ lateCall = FALSE
    /\ calls = NoCalls

\* fn is applied to input
Apply(name, value) ==
    /\ fn = name
    /\ output = <<>>
    /\ output' = <<value>>
    /\ UNCHANGED <<fn, input, runVars, sweepVars, passVars, bucketVars>>

(***************************************************************************)
(* chronosweep-lint: LintReport.ShouldFail.                                *)
(***************************************************************************)
MaxTokens == 2

\* flags[cond]: false for a key the map does not have
failFlag(findings, cond) ==
    CASE cond = <<"d","e","a","d">> -> Len(findings.DeadRules) > 0
      [] cond = <<"m","i","s","s","i","n","g","-","l","a","b","e","l">> ->
            Len(findings.MissingLabels) > 0
      [] cond = <<"c","o","n","f","l","i","c","t">> -> Len(findings.Conflicts) > 0
      [] OTHER -> FALSE

\* ShouldFail that looks the tokens up as they come
RECURSIVE ShouldFail_NoNormalize(_, _)
ShouldFail_NoNormalize(findings, failOn) ==
    IF failOn = <<>> THEN FALSE
    ELSE IF Head(failOn) = <<>> THEN ShouldFail_NoNormalize(findings, Tail(failOn))
    ELSE IF failFlag(findings, Head(failOn)) THEN TRUE
    ELSE ShouldFail_NoNormalize(findings, Tail(failOn))

RECURSIVE ShouldFail(_, _)
ShouldFail(findings, failOn) ==
    IF failOn = <<>> THEN FALSE
    ELSE LET cond == TrimSpace(ToLower(Head(failOn)))
         IN IF cond = <<>> THEN ShouldFail(findings, Tail(failOn))
            ELSE IF failFlag(findings, cond) THEN TRUE
            ELSE ShouldFail(findings, Tail(failOn))

\* the -fail-on tokens tried
FailOnVocab == { <<"d","e","a","d">>, <<" ","D","e","a","d","\t">>,
                 <<"M","I","S","S","I","N","G","-","L","A","B","E","L">>,
                 <<"c","o","n","f","l","i","c","t">>, <<>>, <<" ">>,
                 <<"d","e","a","d","s">>, <<"c","o","n","f","l","i","c","t","s">>,
                 <<"m","i","s","s","i","n","g"," ","l","a","b","e","l">> }

\* findings with every combination of empty and non-empty lists
FindingsVocab ==
    [DeadRules : {<<>>, <<[Name |-> <<"A">>,
                           Reason |-> "no messages matched in lookback"]>>},
     MissingLabels : {<<>>, << <<"m">> >>},
     Conflicts : {<<>>, <<[Rules |-> << <<"A">>, <<"B">> >>,
                            Description |-> "archive and star rules overlap"]>>}]

ShouldFailInputs ==
    [findings : FindingsVocab, failOn : SeqsUpTo(FailOnVocab, MaxTokens)]

ApplyShouldFail == Apply("ShouldFail", ShouldFail(input.findings, input.failOn))

(***************************************************************************)
(* buildRankings on samples with many senders and lists.                   *)
(***************************************************************************)
MaxKeys == 22

Letters == <<"a","b","c","d","e","f","g","h","i","j","k","l","m","n","o","p","q",
             "r","s","t","u","v","w","x","y","z">>

\* the message of sender domain c; every second one is from list c.l and
\* every third one has a display name in its From header
RankMsg(k) ==
    LET c == Letters[k]
        from == IF k % 3 = 0 THEN <<"N"," ","<","u","@",c,">">> ELSE <<"u","@",c>>
    IN [ID |-> c, LabelIDs |-> <<>>,
        Headers |-> IF k % 2 = 0
                    THEN [h \in {"From", "Subject", "List-Id"} |->
                            CASE h = "From" -> from
                              [] h = "Subject" -> <<"s",c>>
                              [] h = "List-Id" -> <<"<",c,".","l",">">>]
                    ELSE [h \in {"From", "Subject"} |->
                            CASE h = "From" -> from
                              [] h = "Subject" -> <<"s",c>>]]

\* a message without headers
BareMsg == [ID |-> "0", LabelIDs |-> <<>>, Headers |-> <<>>]

\* n messages of n senders, in ascending or descending order of domain, then
\* (again = 1) the last two senders once more or (again = 2) a bare message
RankSample(in) ==
    LET base == [i \in 1..in.n |-> RankMsg(IF in.rev THEN in.n + 1 - i ELSE i)]
    IN CASE in.again = 1 /\ in.n >= 2 -> base \o <<RankMsg(in.n), RankMsg(in.n - 1)>>
         [] in.again = 2 -> base \o <<BareMsg>>
         [] OTHER -> base

\* the opts.TopN values tried
TopNs == {-1, 0, 1, 3, 21, 25}

RankInputs == [n : 0..MaxKeys, rev : BOOLEAN, again : 0..2, topN : TopNs]

ApplyRankings ==
    Apply("buildRankings", buildRankings(RankSample(input), effectiveTopN(input.topN)))

(***************************************************************************)
(* compileRules on one filter: the name of the rule.                       *)
(***************************************************************************)
NameInputs ==
    [Name : {<<>>, <<" ">>, <<" ","N"," ">>},
     ID : {<<>>, <<"i","d"," ">>},
     From : {<<>>, <<"f">>},
     To : {<<>>, <<"t">>},
     Subject : {<<>>, <<" ","s">>},
     List : {<<>>, <<"l">>},
     Query : {<<>>, <<"t","o",":","q"," ">>}]

\* the filter made of the drawn fields
NameFilter(in) ==
    Filt(in.Name, in.ID,
         [From |-> in.From, To |-> in.To, Subject |-> in.Subject, List |-> in.List,
          Query |-> in.Query],
         NoAction)

ApplyCompile ==
    Apply("compileRules",
          compileRules([Filters |-> <<NameFilter(input)>>, Labels |-> <<>>], <<>>)[1].Name)

(***************************************************************************)
(* chronosweep-audit: from the -days flag to the list query.               *)
(***************************************************************************)
hoursPerDay == 24

\* the window is in hours
daysFromDuration(w) ==
    IF w <= 0 THEN 1
    ELSE LET days == (w \div hoursPerDay) + (IF w % hoursPerDay # 0 THEN 1 ELSE 0)
         IN IF days <= 0 THEN 1 ELSE days

\* run, Service.Run and fetchMetadata as far as the query: the error Run
\* returns, or the N of newer_than:Nd
auditQuery(days) ==
    LET w == days * hoursPerDay
    IN IF w <= 0 THEN [err |-> "window must be positive", newerThan |-> 0]
       ELSE [err |-> "", newerThan |-> daysFromDuration(w)]

MaxDays == 3

DaysInputs == -MaxDays..MaxDays

ApplyAuditQuery == Apply("auditQuery", auditQuery(input))

(***************************************************************************)
(* fetchMetadata against a connector that serves a chain of pages: page k  *)
(* answers the token k - 1 (0 is the empty token) and carries the token k, *)
(* the last page the empty one.                                            *)
(***************************************************************************)
MaxChain == 3

\* the ids a page may carry
PageVocab == {<<>>, <<"m1">>, <<"m2", "m1">>, <<"m1", "m1">>}

Chains == SeqsUpTo(PageVocab, MaxChain) \ {<<>>}

\* s.listMessages without limiter: what s.Client.List answers
listMessages(chain, pageToken) ==
    [IDs |-> chain[pageToken + 1],
     NextPageToken |-> IF pageToken + 1 < Len(chain) THEN pageToken + 1 ELSE 0]

\* s.messageMetadata without limiter: one GetMetadata per id
messageMetadata(ids) == [i \in DOMAIN ids |-> Mailbox[ids[i]]]

\* a loop that is left at any page without ids
emptyPageEnds_Always(page) == TRUE

\* fetchMetadata: a page without ids ends the loop if its token is empty
emptyPageEnds(page) == page.NextPageToken = 0

\* fetchMetadata: the loop, from the List call with the given token on; acc
\* holds metas, the ids GetMetadata was called with, the tokens List was
\* called with
RECURSIVE fetchLoop(_, _, _)
fetchLoop(chain, pageToken, acc) ==
    LET page == listMessages(chain, pageToken)
        listedAcc == [acc EXCEPT !.lists = Append(@, pageToken)]
        fetchedAcc == [listedAcc EXCEPT !.metas = @ \o messageMetadata(page.IDs),
                                        !.gets = @ \o page.IDs]
    IN IF Len(page.IDs) = 0
       THEN IF emptyPageEnds(page) THEN listedAcc
            ELSE fetchLoop(chain, page.NextPageToken, listedAcc)
       ELSE IF page.NextPageToken = 0 THEN fetchedAcc
            ELSE fetchLoop(chain, page.NextPageToken, fetchedAcc)

fetchMetadata(chain) == fetchLoop(chain, 0, [metas |-> <<>>, gets |-> <<>>, lists |-> <<>>])

ApplyFetch == Apply("fetchMetadata", fetchMetadata(input))

(***************************************************************************)
(* The specification of the functions applied on their own.                *)
(***************************************************************************)
FnInit ==
    /\ RunIdle
    /\ SweepIdle
    /\ PassIdle
    /\ BucketIdle
    /\ output = <<>>
    /\ \/ fn = "ShouldFail" /\ input \in ShouldFailInputs
       \/ fn = "buildRankings" /\ input \in RankInputs
       \/ fn = "compileRules" /\ input \in NameInputs
       \/ fn = "auditQuery" /\ input \in DaysInputs
       \/ fn = "fetchMetadata" /\ input \in Chains

FnNext ==
    \/ ApplyShouldFail
    \/ ApplyRankings
    \/ ApplyCompile
    \/ ApplyAuditQuery
    \/ ApplyFetch

FnSpec == FnInit /\ [][FnNext]_vars

(***************************************************************************)
(* chronosweep-sweep: the default pass and the per-label override passes.  *)
(* Durations and ages are in hours.                                        *)
(***************************************************************************)
MaxInbox == 1

\* the label names of the mailbox
LabelCal == <<"c","a","l">>

LabelMon == <<"m","o","n">>

LabelFin == <<"f","i","n">>

\* unread, unstarred inbox messages: their labels and their age
SweepMsgVocab ==
    [labels : {{}, {LabelCal}, {LabelMon}, {LabelCal, LabelFin}}, age : {1, 60, 100}]

\* what ParseGraceMap returns: a map of positive durations, never nil
GraceMaps ==
    {<<>>, [l \in {LabelCal} |-> 2], [l \in {LabelCal} |-> 96],
     [l \in {LabelCal, LabelMon} |-> IF l = LabelCal THEN 96 ELSE 2]}

\* the values of -exclude tried: none, "fin", " fin , "
ExcludeFlags == {<<>>, LabelFin, <<" ">> \o LabelFin \o <<" ", ",", " ">>}

\* the flags of the command, and whether the clock reads a weekend day
SweepFlags ==
    [label : {<<>>, LabelCal}, grace : {0, 48}, overrides : GraceMaps,
     exclude : ExcludeFlags, dryRun : BOOLEAN, pauseWeekends : BOOLEAN,
     weekend : BOOLEAN]

\* strings.Split by a separator of one character
RECURSIVE SplitFrom(_, _, _, _)
SplitFrom(s, sep, cur, out) ==
    IF s = <<>> THEN Append(out, cur)
    ELSE IF Head(s) = sep THEN SplitFrom(Tail(s), sep, <<>>, Append(out, cur))
         ELSE SplitFrom(Tail(s), sep, Append(cur, Head(s)), out)

Split(s, sep) == SplitFrom(s, sep, <<>>, <<>>)

\* the parts trimmed, the empty ones left out
RECURSIVE trimmedParts(_)
trimmedParts(parts) ==
    IF parts = <<>> THEN <<>>
    ELSE IF TrimSpace(Head(parts)) = <<>> THEN trimmedParts(Tail(parts))
         ELSE <<TrimSpace(Head(parts))>> \o trimmedParts(Tail(parts))

splitList(list) ==
    IF TrimSpace(list) = <<>> THEN <<>> ELSE trimmedParts(Split(list, ","))

validateSpec(spec) == IF spec.Grace <= 0 THEN "grace must be positive" ELSE ""

effectiveGrace(spec) ==
    IF spec.Label = <<>> THEN spec.Grace
    ELSE IF spec.Label \in DOMAIN spec.GraceOverrides
            /\ spec.GraceOverrides[spec.Label] > 0
         THEN spec.GraceOverrides[spec.Label]
         ELSE spec.Grace

\* the query, by its terms: the label wanted, the labels refused (the
\* entries of exclude sorted, then trimmed, the empty ones left out), and
\* the age a message must exceed (before: now - grace)
buildQueryParts(label, exclude, grace) ==
    [label |-> label, exclude |-> trimmedParts(SortStrings(exclude)),
     olderThan |-> grace]

\* Gmail's answer to the query over the messages still in the inbox
listMatching(q, msgs, gone) ==
    {i \in DOMAIN msgs \ gone :
        /\ q.label = <<>> \/ q.label \in msgs[i].labels
        /\ msgs[i].labels \cap Range(q.exclude) = {}
        /\ msgs[i].age > q.olderThan}

\* Service.Run of the sweep package: the error it returns and the messages
\* out of the inbox after it; fails says which call of the client fails
sweepRun(spec, weekend, msgs, gone, fails) ==
    LET ids == listMatching(
                  buildQueryParts(spec.Label, spec.ExcludeLabels, effectiveGrace(spec)),
                  msgs, gone)
    IN IF validateSpec(spec) # "" THEN [err |-> validateSpec(spec), gone |-> gone]
       ELSE IF spec.PauseWeekends /\ weekend THEN [err |-> "", gone |-> gone]
       ELSE IF fails = "List" THEN [err |-> "list page", gone |-> gone]
       ELSE IF ids = {} THEN [err |-> "", gone |-> gone]
       ELSE IF spec.DryRun THEN [err |-> "", gone |-> gone]
       ELSE IF fails = "EnsureLabel" THEN [err |-> "ensure expired label", gone |-> gone]
       ELSE IF fails = "BatchModify" THEN [err |-> "batch modify", gone |-> gone]
       ELSE [err |-> "", gone |-> gone \cup ids]

Failures == {"none", "List", "EnsureLabel", "BatchModify"}

\* the Spec of a pass of the command
passSpec(cfg, label, grace) ==
    [Label |-> label, Grace |-> grace, DryRun |-> cfg.dryRun,
     PauseWeekends |-> cfg.pauseWeekends, GraceOverrides |-> cfg.overrides,
     ExcludeLabels |-> splitList(cfg.exclude)]

\* run: the pass with the flags' label and grace
DefaultPass(fails) ==
    /\ spc = "default"
    /\ \E r \in {sweepRun(passSpec(flags, flags.label, flags.grace),
                          flags.weekend, inbox, swept, fails)} :
          /\ swept' = r.gone
          /\ sweepErr' = r.err
          /\ pending' = IF r.err = "" /\ flags.label = <<>>
                        THEN DOMAIN flags.overrides ELSE {}
          /\ spc' = IF pending' = {} THEN "done" ELSE "overrides"
    /\ UNCHANGED <<flags, inbox, runVars, fnVars, passVars, bucketVars>>

\* run: one turn of the loop over the overrides, in the order the map gives
OverridePass(lbl, fails) ==
    /\ spc = "overrides"
    /\ lbl \in pending
    /\ \E r \in {sweepRun(passSpec(flags, lbl, flags.overrides[lbl]),
                          flags.weekend, inbox, swept, fails)} :
          /\ swept' = r.gone
          /\ sweepErr' = r.err
          /\ pending' = IF r.err = "" THEN pending \ {lbl} ELSE {}
          /\ spc' = IF pending' = {} THEN "done" ELSE "overrides"
    /\ UNCHANGED <<flags, inbox, runVars, fnVars, passVars, bucketVars>>

SweepInit ==
    /\ RunIdle
    /\ FnIdle
    /\ PassIdle
    /\ BucketIdle
    /\ spc = "default"
    /\ flags \in SweepFlags
    /\ inbox \in SeqsUpTo(SweepMsgVocab, MaxInbox)
    /\ pending = {}
    /\ swept = {}
    /\ sweepErr = ""

SweepNext ==
    \/ \E fails \in Failures : DefaultPass(fails)
    \/ \E lbl \in {LabelCal, LabelMon}, fails \in Failures : OverridePass(lbl, fails)

SweepSpec == SweepInit /\ [][SweepNext]_vars

(***************************************************************************)
(* Service.Run of the sweep package, call by call.  The collected ids are  *)
(* ids[0..srIds-1]; a batch is the slice ids[lo:hi].                       *)
(***************************************************************************)
MaxSweepPages == 3

maxPageSize == 500

batchSize == 1000

\* how many ids a page of List carries
PageCounts == {0, 1, maxPageSize}

\* the Spec of a Run, and the day the clock reads
RunSpecs == [Grace : {0, 48}, DryRun : BOOLEAN, PauseWeekends : BOOLEAN,
             weekend : BOOLEAN]

\* a call of s.Client: whether it succeeded, whether a Limiter.Wait that
\* returned nil came right before it, and for BatchModify the slice bounds
Call(op, ok, waited, lo, hi, more) ==
    [op |-> op, ok |-> ok, waited |-> waited, lo |-> lo, hi |-> hi, more |-> more]

\* s.wait of the sweep service
SweepWaitOutcomes == IF srLimiter THEN {TRUE, FALSE} ELSE {TRUE}

\* Run returns err
SweepReturn(err) ==
    /\ srPc' = "done"
    /\ srErr' = err

\* Run: validateSpec and the weekend pause
SweepStart ==
    /\ srPc = "start"
    /\ IF validateSpec(srSpec) # "" THEN SweepReturn(validateSpec(srSpec))
       ELSE IF srSpec.PauseWeekends /\ srSpec.weekend THEN SweepReturn("")
       ELSE srPc' = "list" /\ UNCHANGED srErr
    /\ UNCHANGED <<srSpec, srLimiter, srIds, srPage, srStart, srCalls>>
    /\ UNCHANGED <<runVars, fnVars, sweepVars, bucketVars>>

\* a Run that goes on to mutate whenever ids were collected
mutates_DryRunIgnored(spec, n) == n > 0

\* Run after collectMessageIDs: return on no ids, return on DryRun
mutates(spec, n) == n > 0 /\ ~spec.DryRun

\* collectMessageIDs: one turn of the loop, and what Run does after the loop
CollectPage(waitOK, ok, count, more) ==
    /\ srPc = "list"
    /\ more => srPage + 1 < MaxSweepPages
    /\ srPage' = srPage + 1
    /\ IF ~waitOK
       THEN /\ SweepReturn("rate limit list messages")
            /\ UNCHANGED <<srIds, srCalls>>
       ELSE /\ srCalls' = Append(srCalls, Call("List", ok, srLimiter, 0, 0, more))
            /\ IF ~ok
               THEN SweepReturn("list page") /\ UNCHANGED srIds
               ELSE /\ srIds' = srIds + count
                    /\ IF more THEN UNCHANGED <<srPc, srErr>>
                       ELSE IF mutates(srSpec, srIds')
                            THEN srPc' = "ensure" /\ UNCHANGED srErr
                            ELSE SweepReturn("")
    /\ UNCHANGED <<srSpec, srLimiter, srStart>>
    /\ UNCHANGED <<runVars, fnVars, sweepVars, bucketVars>>

\* a Run that goes on to applyBatches whatever EnsureLabel returned
EnsureExpiredLabel_ErrorIgnored(ok) ==
    /\ srPc = "ensure"
    /\ srCalls' = Append(srCalls, Call("EnsureLabel", ok, FALSE, 0, 0, FALSE))
    /\ srPc' = "batch"
    /\ srStart' = 0
    /\ UNCHANGED <<srSpec, srLimiter, srIds, srPage, srErr>>
    /\ UNCHANGED <<runVars, fnVars, sweepVars, bucketVars>>

\* Run: s.Client.EnsureLabel
EnsureExpiredLabel(ok) ==
    /\ srPc = "ensure"
    /\ srCalls' = Append(srCalls, Call("EnsureLabel", ok, FALSE, 0, 0, FALSE))
    /\ IF ok THEN srPc' = "batch" /\ srStart' = 0 /\ UNCHANGED srErr
       ELSE SweepReturn("ensure expired label") /\ UNCHANGED srStart
    /\ UNCHANGED <<srSpec, srLimiter, srIds, srPage>>
    /\ UNCHANGED <<runVars, fnVars, sweepVars, bucketVars>>

\* a batch end that is not cut at len(ids)
batchEnd_Uncut(start, n) == start + batchSize

\* applyBatches: end
batchEnd(start, n) == IF start + batchSize > n THEN n ELSE start + batchSize

\* an applyBatches that goes on after a failed BatchModify
afterBatch_ErrorIgnored(ok, start, n) ==
    IF start + batchSize < n THEN "batch" ELSE "done"

\* applyBatches: where Run is after a BatchModify call
afterBatch(ok, start, n) ==
    IF ~ok THEN "failed"
    ELSE IF start + batchSize < n THEN "batch" ELSE "done"

\* applyBatches: one turn of the loop
ApplyBatch(waitOK, ok) ==
    /\ srPc = "batch"
    /\ srStart < srIds
    /\ IF ~waitOK
       THEN SweepReturn("rate limit batch modify") /\ UNCHANGED <<srCalls, srStart>>
       ELSE /\ srCalls' = Append(srCalls,
                 Call("BatchModify", ok, srLimiter, srStart, batchEnd(srStart, srIds), FALSE))
            /\ \E to \in {afterBatch(ok, srStart, srIds)} :
                  CASE to = "failed" -> SweepReturn("batch modify") /\ UNCHANGED srStart
                    [] to = "done" -> SweepReturn("") /\ srStart' = srStart + batchSize
                    [] OTHER -> srStart' = srStart + batchSize /\ UNCHANGED <<srPc, srErr>>
    /\ UNCHANGED <<srSpec, srLimiter, srIds, srPage>>
    /\ UNCHANGED <<runVars, fnVars, sweepVars, bucketVars>>

SweepRunInit ==
    /\ RunIdle
    /\ FnIdle
    /\ SweepIdle
    /\ BucketIdle
    /\ srPc = "start"
    /\ srSpec \in RunSpecs
    /\ srLimiter \in BOOLEAN
    /\ srIds = 0
    /\ srPage = 0
    /\ srStart = 0
    /\ srCalls = <<>>
    /\ srErr = ""

SweepRunNext ==
    \/ SweepStart
    \/ \E waitOK \in SweepWaitOutcomes, ok \in BOOLEAN, count \in PageCounts,
          more \in BOOLEAN : CollectPage(waitOK, ok, count, more)
    \/ \E ok \in BOOLEAN : EnsureExpiredLabel(ok)
    \/ \E waitOK \in SweepWaitOutcomes, ok \in BOOLEAN : ApplyBatch(waitOK, ok)

SweepRunSpec == SweepRunInit /\ [][SweepRunNext]_vars

(***************************************************************************)
(* rate.TokenBucket: the ticker, the goroutine run, and the callers of     *)
(* Wait and Stop.  Period k runs from the k-th tick to the next one.       *)
(***************************************************************************)
MaxRps == 2

MaxTicks == 4

\* NewTokenBucket: the capacity of tokens
bucketSize(arg) == IF arg <= 0 THEN 1 ELSE arg

\* the ticker fires: ticker.C holds at most one tick, a further one is dropped
Tick ==
    /\ tickerOn
    /\ ticks < MaxTicks
    /\ ticks' = ticks + 1
    /\ tickerC' = [tickerC EXCEPT !.buf = 1]
    /\ UNCHANGED <<rps, tokens, tickerOn, waits, stopPc, stopDone, runPc>>
    /\ UNCHANGED <<runVars, fnVars, sweepVars, passVars>>

\* run: "for range t.ticker.C" receives a tick; the loop is left, and
\* stopDone closed, when ticker.C is closed
RunReceive ==
    /\ runPc = "range"
    /\ tickerC.buf > 0 \/ tickerC.closed
    /\ IF tickerC.buf > 0
       THEN /\ tickerC' = [tickerC EXCEPT !.buf = 0]
            /\ runPc' = "select"
            /\ UNCHANGED stopDone
       ELSE /\ runPc' = "returned"
            /\ stopDone' = TRUE
            /\ UNCHANGED tickerC
    /\ UNCHANGED <<rps, tokens, tickerOn, ticks, waits, stopPc>>
    /\ UNCHANGED <<runVars, fnVars, sweepVars, passVars>>

\* run: the non-blocking send on tokens
Refill ==
    /\ runPc = "select"
    /\ tokens' = IF tokens < rps THEN tokens + 1 ELSE tokens
    /\ runPc' = "range"
    /\ UNCHANGED <<rps, tickerC, tickerOn, ticks, waits, stopPc, stopDone>>
    /\ UNCHANGED <<runVars, fnVars, sweepVars, passVars>>

\* Wait returns nil: a token is taken
Wait ==
    /\ tokens > 0
    /\ tokens' = tokens - 1
    /\ waits' = Append(waits, ticks)
    /\ UNCHANGED <<rps, tickerC, tickerOn, ticks, stopPc, stopDone, runPc>>
    /\ UNCHANGED <<runVars, fnVars, sweepVars, passVars>>

\* Stop: ticker.Stop(), which leaves ticker.C open and either keeps or drops
\* a tick still buffered, then the receive from stopDone
Stop(drop) ==
    /\ \/ stopPc = "none"
       \/ stopPc = "blocked" /\ stopDone
    /\ IF stopPc = "none"
       THEN /\ tickerOn' = FALSE
            /\ tickerC' = IF drop THEN [tickerC EXCEPT !.buf = 0] ELSE tickerC
            /\ stopPc' = "blocked"
       ELSE /\ stopPc' = "returned"
            /\ UNCHANGED <<tickerOn, tickerC>>
    /\ UNCHANGED <<rps, tokens, ticks, waits, stopDone, runPc>>
    /\ UNCHANGED <<runVars, fnVars, sweepVars, passVars>>

StopStep == \E drop \in BOOLEAN : Stop(drop)

\* NewTokenBucket(arg)
BucketInit ==
    /\ RunIdle
    /\ FnIdle
    /\ SweepIdle
    /\ PassIdle
    /\ rps \in {bucketSize(arg) : arg \in 0..MaxRps}
    /\ tokens = 1
    /\ tickerC = [buf |-> 0, closed |-> FALSE]
    /\ tickerOn = TRUE
    /\ ticks = 0
    /\ waits = <<>>
    /\ stopPc = "none"
    /\ stopDone = FALSE
    /\ runPc = "range"

BucketNext ==
    \/ Tick
    \/ RunReceive
    \/ Refill
    \/ Wait
    \/ StopStep

BucketSpec == BucketInit /\ [][BucketNext]_vars

\* the goroutine run and the caller of Stop are scheduled
BucketFairSpec ==
    BucketSpec /\ WF_vars(RunReceive) /\ WF_vars(Refill) /\ WF_vars(StopStep)

(***************************************************************************)
(* Properties.                                                             *)
(***************************************************************************)
\* Run has returned a report whose findings analyseGmailctl computed
Computed == pc = "done" /\ result.err = "" /\ loader /\ Len(metas) > 0

Findings == result.rep.Findings

DeadNames == {Findings.DeadRules[i].Name : i \in DOMAIN Findings.DeadRules}

RulesNamed(n) == {r \in DOMAIN compiled : compiled[r].Name = n}

\* the ids of the sampled messages that rule r itself matches, in sample order
OwnMatches(r) ==
    LET hit == SelectSeq(metas, LAMBDA m : ruleMatches(compiled[r], m))
    IN [i \in DOMAIN hit |-> hit[i].ID]

NoRepeats(seq) == \A i, j \in DOMAIN seq : seq[i] = seq[j] => i = j

RECURSIVE SeqOfSet(_)
SeqOfSet(S) ==
    IF S = {} THEN <<>>
    ELSE LET x == CHOOSE y \in S : TRUE IN <<x>> \o SeqOfSet(S \ {x})

Remove(seq, i) == SubSeq(seq, 1, i - 1) \o SubSeq(seq, i + 1, Len(seq))

\* C1: every DeadRules entry names an evaluable compiled rule whose list in
\* the replay map is empty; the entries of a name are no more than the
\* evaluable rules of that name, so no non-evaluable rule is reported dead,
\* and no name with a non-empty match list is reported dead.
C1_DeadRulesEvaluableAndUnmatched ==
    Computed =>
      /\ \A i \in DOMAIN Findings.DeadRules :
           LET n == Findings.DeadRules[i].Name
           IN /\ Len(Lookup(matches, n)) = 0
              /\ Cardinality({j \in DOMAIN Findings.DeadRules :
                                 Findings.DeadRules[j].Name = n})
                   <= Cardinality({r \in RulesNamed(n) : compiled[r].Evaluable})
      /\ \A n \in DOMAIN matches : Len(matches[n]) > 0 => n \notin DeadNames

C1_Witness ==
    /\ Computed
    /\ Len(Findings.DeadRules) = 1
    /\ \E r \in DOMAIN compiled :
          ~compiled[r].Evaluable /\ compiled[r].Name \notin DeadNames

\* C2: every compiled rule that is evaluable and whose matchers match none of
\* the sampled messages has a DeadRules entry with its name and the reason
\* "no messages matched in lookback", also when filters share a rule name.
C2_UnmatchedEvaluableRulesReported ==
    Computed =>
      \A r \in DOMAIN compiled :
        (compiled[r].Evaluable /\ OwnMatches(r) = <<>>) =>
           \E i \in DOMAIN Findings.DeadRules :
              Findings.DeadRules[i] =
                 [Name |-> compiled[r].Name,
                  Reason |-> "no messages matched in lookback"]

\* C3: MissingLabels holds exactly the label names of the compiled rules'
\* Labels that are not names of the live catalog, each of them once.
C3_MissingLabelsExact ==
    Computed =>
      /\ Range(Findings.MissingLabels) =
            {l \in UNION {Range(compiled[r].Labels) : r \in DOMAIN compiled} :
                l \notin existingLabels}
      /\ NoRepeats(Findings.MissingLabels)

C3_Witness ==
    /\ Computed
    /\ Len(Findings.MissingLabels) = 1
    /\ \A r \in DOMAIN compiled : Findings.MissingLabels[1] \in Range(compiled[r].Labels)
    /\ Len(compiled) = 2
    /\ \E r \in DOMAIN compiled :
          \E l \in Range(compiled[r].Labels) : l \in existingLabels

\* the archive and the star rules that matched sampled message k
MatchedBy(k) ==
    {r \in DOMAIN compiled : compiled[r].Evaluable /\ ruleMatches(compiled[r], metas[k])}

ArchiveNames(k) == {compiled[r].Name : r \in {q \in MatchedBy(k) : compiled[q].Actions.Archive}}

StarNames(k) == {compiled[r].Name : r \in {q \in MatchedBy(k) : compiled[q].Actions.Star}}

ExpectedConflictSets ==
    {SortStrings(SeqOfSet(ArchiveNames(k) \cup StarNames(k))) :
        k \in {j \in DOMAIN metas : ArchiveNames(j) # {} /\ StarNames(j) # {}}}

\* C4: the conflicts are exactly the sorted, deduplicated unions of the names
\* of the archive rules and the star rules that matched one sampled message
\* (where both kinds matched it), each once, in ascending order of joined key.
C4_ConflictsExactlyArchiveStarOverlaps ==
    Computed =>
      /\ {Findings.Conflicts[i].Rules : i \in DOMAIN Findings.Conflicts}
            = ExpectedConflictSets
      /\ \A i, j \in DOMAIN Findings.Conflicts :
            i < j => StrLess(conflictKey(Findings.Conflicts[i].Rules),
                             conflictKey(Findings.Conflicts[j].Rules))

\* the rearrangements of a sequence
Rearrangements(seq) ==
    {[i \in DOMAIN seq |-> seq[p[i]]] : p \in Permutations(DOMAIN seq)}

\* C5: replaying any permutation of the sample, with the map ranged over in
\* any order, gives the same sequence of conflicts.
C5_ConflictsOrderIndependent ==
    (Computed /\ Len(compiled) > 0) =>
      \A perm \in Rearrangements(metas) :
        \A replay \in {evaluateRules(compiled, perm)} :
          \A order \in Orders(DOMAIN collectRuleSummaries(compiled, replay)) :
             detectConflicts(compiled, replay, order) = Findings.Conflicts

C5_Witness ==
    /\ Computed
    /\ Len(metas) >= 2
    /\ \E i, j \in DOMAIN metas : metas[i].ID # metas[j].ID
    /\ Len(Findings.Conflicts) >= 2

\* C6 as stated: the replay map has no key for a non-evaluable rule and has
\* one (with an empty list if need be) for every rule that ran, so that the
\* map alone tells the two apart.
C6_MapTellsRanFromNotRun ==
    Computed =>
      \A r \in DOMAIN compiled :
         compiled[r].Evaluable <=> compiled[r].Name \in DOMAIN matches

\* C6, amended: every key of the replay map is the name of an evaluable rule
\* that matched a sampled message, and its list is not empty; a rule that did
\* not run and a rule that ran but matched nothing are both absent, unless a
\* rule of the same name matched.
C6_KeysAreMatchedEvaluableRules ==
    Computed =>
      /\ \A n \in DOMAIN matches :
            /\ Len(matches[n]) > 0
            /\ \E r \in RulesNamed(n) :
                  compiled[r].Evaluable /\ OwnMatches(r) # <<>>
      /\ \A r \in DOMAIN compiled :
            (\A q \in RulesNamed(compiled[r].Name) :
                ~compiled[q].Evaluable \/ OwnMatches(q) = <<>>)
            => compiled[r].Name \notin DOMAIN matches

C6_Witness ==
    /\ Computed
    /\ DOMAIN matches # {}
    /\ \E r \in DOMAIN compiled :
          ~compiled[r].Evaluable /\ compiled[r].Name \notin DOMAIN matches
    /\ Len(compiled) = 2

\* C7: the replay map entry of an evaluable rule is the sequence of the ids of
\* the sampled messages that this rule matches, in sample order.
C7_ReplayEntryIsOwnSubsequence ==
    Computed =>
      \A r \in DOMAIN compiled :
         compiled[r].Evaluable => Lookup(matches, compiled[r].Name) = OwnMatches(r)

QueryWrapping == {"(", ")", "\"", "'"}

\* the tokens of a query that are left once wrapping, empty tokens and OR
\* are discarded
KeptTokens(query) ==
    LET toks == Fields(query)
    IN SelectSeq([i \in DOMAIN toks |-> Trim(toks[i], QueryWrapping)],
                 LAMBDA t : t # <<>> /\ ToLower(t) # <<"o", "r">>)

RecognizedPrefixes == { <<"l","i","s","t",":">>, <<"f","r","o","m",":">>,
                        <<"t","o",":">>, <<"s","u","b","j","e","c","t",":">> }

BadToken(t) ==
    \/ Head(t) = "-"
    \/ ~\E p \in RecognizedPrefixes : HasPrefix(ToLower(t), p)

HasBadToken(query) ==
    \E i \in DOMAIN KeptTokens(query) : BadToken(KeptTokens(query)[i])

\* C8: a filter whose query has a negated or an unrecognized token compiles
\* to a non-evaluable rule whatever its other criteria are; the rule is not
\* replayed and not reported dead: without it the replay map and the dead
\* rules would be the same.
C8_BadQueryTokenNotEvaluable ==
    Computed =>
      \A i \in DOMAIN export.Filters :
         HasBadToken(export.Filters[i].Criteria.Query) =>
            /\ ~compiled[i].Evaluable
            /\ compiled[i].Matchers = <<>>
            /\ evaluateRules(Remove(compiled, i), metas) = matches
            /\ findingsLoop(Remove(compiled, i), matches, existingLabels,
                            NoFindings).DeadRules = Findings.DeadRules

C8_Witness ==
    /\ Computed
    /\ \E i \in DOMAIN export.Filters :
          /\ \E k \in DOMAIN KeptTokens(export.Filters[i].Criteria.Query) :
                Head(KeptTokens(export.Filters[i].Criteria.Query)[k]) = "-"
          /\ TrimSpace(export.Filters[i].Criteria.From) # <<>>
          /\ ~compiled[i].Evaluable
    /\ \E i \in DOMAIN export.Filters :
          /\ HasBadToken(export.Filters[i].Criteria.Query)
          /\ TrimSpace(export.Filters[i].Criteria.Subject) # <<>>
          /\ \A k \in DOMAIN KeptTokens(export.Filters[i].Criteria.Query) :
                Head(KeptTokens(export.Filters[i].Criteria.Query)[k]) # "-"

\* C9: a From, To or Subject criterion that is not blank but normalizes to no
\* candidate contributes no matcher: the rule has the matchers and the
\* evaluability it would have without that criterion.
C9_EmptyCriterionContributesNoMatcher ==
    Computed =>
      \A i \in DOMAIN export.Filters :
        \A kind \in {"From", "To", "Subject"} :
          LET c == export.Filters[i].Criteria
          IN (TrimSpace(c[kind]) # <<>> /\ splitCandidates(c[kind]) = <<>>) =>
                LET without == buildMatchers([c EXCEPT ![kind] = <<>>])
                IN /\ compiled[i].Matchers = without.matchers
                   /\ compiled[i].Evaluable = without.evaluable

\* C10: when Run returns an error, the report it returns is the zero report.
C10_ErrorMeansZeroReport ==
    (pc = "done" /\ result.err # "") => result.rep = ZeroReport

\* Run failed on the export after rankings and coverage had been computed
C10_Witness ==
    /\ pc = "done"
    /\ result.err = "load gmailctl filters"
    /\ Len(metas) > 0
    /\ assembleReport(window, metas, labelsByID).TopSenders # <<>>
    /\ DOMAIN assembleReport(window, metas, labelsByID).Coverage # {}

\* C11: once ctx is cancelled while Run is fetching, Run issues no further
\* List or GetMetadata call and ends with an error and the zero report, with
\* a TokenBucket that has tokens as with no limiter.
C11_CancelAbortsFetch ==
    /\ ~lateCall
    /\ (ctxDone /\ pc = "done") => (result.err # "" /\ result.rep = ZeroReport)

\* C12: when fetchMetadata hands back an empty sample, Run returns without
\* error a report with Total 0, no rankings, no coverage and no findings, and
\* ExportFilters has not been called, loader or not.
C12_EmptySampleReport ==
    [][(pc = "report" /\ metas = <<>>) =>
          /\ pc' = "done"
          /\ result'.err = ""
          /\ result'.rep.Total = 0
          /\ result'.rep.TopSenders = <<>>
          /\ result'.rep.TopLists = <<>>
          /\ DOMAIN result'.rep.Coverage = {}
          /\ result'.rep.Findings = NoFindings
          /\ calls'.ExportFilters = 0]_vars

C12_Witness ==
    /\ pc = "done"
    /\ metas = <<>>
    /\ loader
    /\ "List" \in calls.Client
    /\ result.err = ""
    /\ result.rep.Total = 0
    /\ result.rep.Window > 0

\* C13: ExportFilters is called at most once in a Run, and only with a loader
\* configured; without a loader the findings are empty while rankings,
\* coverage and suggestions are computed from the sample.
C13_LoaderAtMostOnceAndOptional ==
    /\ calls.ExportFilters <= 1
    /\ calls.ExportFilters > 0 => loader
    /\ (pc = "done" /\ result.err = "" /\ ~loader /\ metas # <<>>) =>
          /\ result.rep.Findings = NoFindings
          /\ result.rep.RemoveRules = <<>>
          /\ result.rep.Smells = <<>>
          /\ result.rep.Total = Len(metas)
          /\ result.rep.TopSenders # <<>>
          /\ result.rep.TopSenders = buildRankings(metas, defaultTopN).TopSenders
          /\ result.rep.TopLists = buildRankings(metas, defaultTopN).TopLists
          /\ result.rep.Coverage = buildCoverage(metas, labelsByID)
          /\ result.rep.ArchiveRules =
                buildArchiveRules(result.rep.TopLists, result.rep.TopSenders)

C13_Witness ==
    /\ pc = "done"
    /\ result.err = ""
    /\ ~loader
    /\ Len(metas) = 2
    /\ result.rep.ArchiveRules # <<>>
    /\ DOMAIN result.rep.Coverage # {}

\* the findings of a second Run on the same catalog, sample and export, when
\* detectConflicts ranges over its map in any order
FindingsAgain ==
    IF ~loader THEN {NoFindings}
    ELSE UNION {UNION {
            {computeFindings(rules, replay, existingLabels, order) :
                order \in Orders(DOMAIN collectRuleSummaries(rules, replay))} :
            replay \in {IF Len(rules) = 0 THEN <<>> ELSE evaluateRules(rules, metas)}} :
            rules \in {compileRules(export, labelsByID)}}

\* C15: a second Run on the same export, label catalog and sample reports
\* the same fields (all but GeneratedAt) as the first, in whatever order its
\* maps (senders, lists, byMessage) are ranged over.
C15_RunIsDeterministic ==
    (pc = "done" /\ result.err = "" /\ metas # <<>>) =>
       \A tallies \in {tallyFrom(metas, [senders |-> <<>>, lists |-> <<>>])} :
          /\ result.rep.Window = window
          /\ result.rep.Total = Len(metas)
          /\ \A senderOrder \in Orders(DOMAIN tallies.senders) :
                rankIn(tallies.senders, defaultTopN, senderOrder)
                   = result.rep.TopSenders
          /\ \A listOrder \in Orders(DOMAIN tallies.lists) :
                rankIn(tallies.lists, defaultTopN, listOrder) = result.rep.TopLists
          /\ buildCoverage(metas, labelsByID) = result.rep.Coverage
          /\ buildArchiveRules(result.rep.TopLists, result.rep.TopSenders)
                = result.rep.ArchiveRules
          /\ \A findings \in FindingsAgain :
                /\ findings = result.rep.Findings
                /\ findings.DeadRules = result.rep.RemoveRules
                /\ findings.Conflicts = result.rep.Smells

C15_Witness ==
    /\ pc = "done"
    /\ result.err = ""
    /\ Len(result.rep.TopSenders) = 2
    /\ result.rep.TopSenders[1].Count = result.rep.TopSenders[2].Count
    /\ Len(result.rep.Findings.Conflicts) = 2

\* C18: with a window that is not positive Run fails at once: it returns the
\* error before any call of the connector or of the loader.
C18_WindowFailsFast ==
    window <= 0 =>
       /\ calls = NoCalls
       /\ pc \in {"start", "done"}
       /\ pc = "done" => (result.err = "window must be positive"
                          /\ result.rep = ZeroReport)

C18_Witness == window <= 0 /\ pc = "done" /\ result.err # ""

\* the token as the lint command understands it
NormalToken(t) == ToLower(TrimSpace(t))

\* C14: ShouldFail is true exactly when some requested token, trimmed and
\* lower-cased, is dead, missing-label or conflict and the finding list of
\* that name is not empty; empty and unknown tokens never make it true.
C14_ShouldFailIffRequestedFinding ==
    (fn = "ShouldFail" /\ output # <<>>) =>
       (output[1] <=>
          \E i \in DOMAIN input.failOn :
             \/ /\ NormalToken(input.failOn[i]) = <<"d","e","a","d">>
                /\ input.findings.DeadRules # <<>>
             \/ /\ NormalToken(input.failOn[i])
                      = <<"m","i","s","s","i","n","g","-","l","a","b","e","l">>
                /\ input.findings.MissingLabels # <<>>
             \/ /\ NormalToken(input.failOn[i]) = <<"c","o","n","f","l","i","c","t">>
                /\ input.findings.Conflicts # <<>>)

C14_Witness ==
    /\ fn = "ShouldFail"
    /\ output = <<TRUE>>
    /\ input.failOn = << <<"d","e","a","d","s">>, <<" ","D","e","a","d","\t">> >>
    /\ input.findings.DeadRules # <<>>
    /\ input.findings.Conflicts = <<>>

\* the sender key and the list key of a message
SenderKeyOf(meta) == domainOf(Lookup(meta.Headers, "From"))

ListKeyOf(meta) == normalizeListID(Lookup(meta.Headers, "List-Id"))

\* how many messages of the sample have the key k
Occurrences(sample, KeyOf(_), k) ==
    Cardinality({i \in DOMAIN sample : KeyOf(sample[i]) = k})

\* table is the ranking of the sample's keys cut at n entries
IsRanking(table, sample, KeyOf(_), n) ==
    LET keys == {KeyOf(sample[i]) : i \in DOMAIN sample} \ {<<>>}
        shown == {table[i].Key : i \in DOMAIN table}
    IN /\ Len(table) = IF n < Cardinality(keys) THEN n ELSE Cardinality(keys)
       /\ \A i \in DOMAIN table :
             /\ table[i].Key \in keys
             /\ table[i].Count = Occurrences(sample, KeyOf, table[i].Key)
       /\ \A i, j \in DOMAIN table :
             i < j => \/ table[i].Count > table[j].Count
                      \/ /\ table[i].Count = table[j].Count
                         /\ StrLess(table[i].Key, table[j].Key)
       /\ \A k \in keys \ shown : \A i \in DOMAIN table :
             \/ table[i].Count > Occurrences(sample, KeyOf, k)
             \/ /\ table[i].Count = Occurrences(sample, KeyOf, k)
                /\ StrLess(table[i].Key, k)

\* C16: TopSenders and TopLists are the first min(topN, number of keys)
\* entries of the tallies in the order count descending, key ascending; each
\* key is there once with its exact count, and a topN that is not positive
\* counts as 20.
C16_RankingsAreTopOfTallies ==
    (fn = "buildRankings" /\ output # <<>>) =>
       \A n \in {IF input.topN <= 0 THEN defaultTopN ELSE input.topN} :
          /\ IsRanking(output[1].TopSenders, RankSample(input), SenderKeyOf, n)
          /\ IsRanking(output[1].TopLists, RankSample(input), ListKeyOf, n)

C16_Witness ==
    /\ fn = "buildRankings"
    /\ output # <<>>
    /\ input.topN = 0
    /\ input.rev
    /\ input.again = 1
    /\ Len(RankSample(input)) > defaultTopN + 2
    /\ Len(output[1].TopSenders) = defaultTopN
    /\ output[1].TopSenders[1] = [Key |-> <<"u">>, Count |-> 2, PreviewSubject |-> <<"s","u">>]
    /\ output[1].TopSenders[2].Key = <<"v">>
    /\ output[1].TopSenders[3].Key = <<"a">>
    /\ output[1].TopSenders[3].Count = 1
    /\ Len(output[1].TopLists) = 11

\* the criteria in the order From, To, Subject, List, Query, each with the
\* prefix of its description
CriteriaInOrder(in) ==
    << [prefix |-> <<"f","r","o","m",":">>, value |-> in.From],
       [prefix |-> <<"t","o",":">>, value |-> in.To],
       [prefix |-> <<"s","u","b","j","e","c","t",":">>, value |-> in.Subject],
       [prefix |-> <<"l","i","s","t",":">>, value |-> in.List],
       [prefix |-> <<>>, value |-> in.Query] >>

\* the name the resolution order gives
ResolvedName(in) ==
    LET crit == CriteriaInOrder(in)
        set == {i \in DOMAIN crit : crit[i].value # <<>>}
    IN IF TrimSpace(in.Name) # <<>> THEN TrimSpace(in.Name)
       ELSE IF TrimSpace(in.ID) # <<>> THEN TrimSpace(in.ID)
       ELSE IF set = {} THEN <<"g","m","a","i","l","c","t","l","-","r","u","l","e">>
       ELSE LET first == CHOOSE i \in set : \A j \in set : i <= j
            IN crit[first].prefix \o TrimSpace(crit[first].value)

\* C17: the name of a compiled rule is the filter's name if not blank, else
\* its id if not blank, else the description of its first non-empty criterion
\* among From, To, Subject, List, Query, and the placeholder only when no
\* criterion is set.
C17_NameResolutionOrder ==
    (fn = "compileRules" /\ output # <<>>) => output[1] = ResolvedName(input)

\* C19: a -days value under 1 is coerced to one day: the run does not fail
\* and lists with newer_than:1d.
C19_DaysUnderOneCoerced ==
    (fn = "auditQuery" /\ output # <<>> /\ input < 1) =>
       output[1] = [err |-> "", newerThan |-> 1]

\* C20: a message carrying a label that has an override is swept by the
\* command only when it is older than the override of that label, also when
\* the override is longer than the default grace.
C20_OverrideReplacesDefaultGrace ==
    \A i \in swept :
       \A l \in inbox[i].labels \cap DOMAIN flags.overrides :
          inbox[i].age > flags.overrides[l]

\* the calls of one method, in call order
CallsOf(op) == SelectSeq(srCalls, LAMBDA c : c.op = op)

\* C21: a sweep Run with DryRun set makes no EnsureLabel call and no
\* BatchModify call, whatever the listing returns.
C21_DryRunNeverMutates ==
    srSpec.DryRun => (CallsOf("EnsureLabel") = <<>> /\ CallsOf("BatchModify") = <<>>)

C21_Witness ==
    /\ srPc = "done"
    /\ srSpec.DryRun
    /\ srErr = ""
    /\ srIds > maxPageSize
    /\ Len(CallsOf("List")) = 2

\* C22: a sweep that is not a dry run and collected n ids issues
\* ceil(n / 1000) BatchModify calls of at most 1000 ids, all but the last of
\* exactly 1000, which are the consecutive slices of the id list: every id
\* is in exactly one batch.
C22_BatchesPartitionIds ==
    (srPc = "done" /\ srErr = "" /\ srSpec.Grace > 0 /\ ~srSpec.DryRun
       /\ ~(srSpec.PauseWeekends /\ srSpec.weekend)) =>
       \A b \in {CallsOf("BatchModify")} :
          /\ Len(b) = (srIds + 999) \div 1000
          /\ \A i \in DOMAIN b :
                /\ b[i].hi - b[i].lo <= 1000
                /\ i < Len(b) => b[i].hi - b[i].lo = 1000
                /\ b[i].lo = IF i = 1 THEN 0 ELSE b[i - 1].hi
                /\ b[i].lo < b[i].hi
                /\ i = Len(b) => b[i].hi = srIds

C22_Witness ==
    /\ srPc = "done"
    /\ srErr = ""
    /\ srIds = 1001
    /\ Len(CallsOf("BatchModify")) = 2
    /\ CallsOf("BatchModify")[2].lo = 1000
    /\ CallsOf("BatchModify")[2].hi = 1001

\* C23: when EnsureLabel fails the Run ends with an error and no BatchModify
\* call is made; a BatchModify call always comes after an EnsureLabel call
\* that succeeded.
C23_EnsureLabelFailureAborts ==
    /\ (\E i \in DOMAIN srCalls : srCalls[i].op = "EnsureLabel" /\ ~srCalls[i].ok) =>
          (srPc = "done" /\ srErr # "" /\ CallsOf("BatchModify") = <<>>)
    /\ \A i \in DOMAIN srCalls :
          srCalls[i].op = "BatchModify" =>
             \E j \in 1..(i - 1) : srCalls[j].op = "EnsureLabel" /\ srCalls[j].ok

C23_Witness ==
    /\ srPc = "done"
    /\ srIds > 0
    /\ \E i \in DOMAIN srCalls : srCalls[i].op = "EnsureLabel" /\ ~srCalls[i].ok

\* C26 (sweep Run): with a limiter, every call of the connector comes right
\* after a Limiter.Wait of its own that returned nil.
C26_EveryCallPaced ==
    srLimiter => \A i \in DOMAIN srCalls : srCalls[i].waited

\* C30: every BatchModify comes after all pages were listed without error
\* and after EnsureLabel succeeded, so a failed List leaves no BatchModify;
\* a failed BatchModify is the last call and the Run returns an error.
C30_MutateOnlyAfterListingAndStopAtFailure ==
    /\ \A i \in DOMAIN srCalls :
          srCalls[i].op = "BatchModify" =>
             /\ \A j \in DOMAIN srCalls :
                   srCalls[j].op = "List" => (j < i /\ srCalls[j].ok)
             /\ \E j \in 1..(i - 1) :
                   srCalls[j].op = "List" /\ srCalls[j].ok /\ ~srCalls[j].more
             /\ \E j \in 1..(i - 1) : srCalls[j].op = "EnsureLabel" /\ srCalls[j].ok
    /\ \A i \in DOMAIN srCalls :
          (srCalls[i].op = "BatchModify" /\ ~srCalls[i].ok) =>
             (i = Len(srCalls) /\ srPc = "done" /\ srErr # "")

C30_Witness ==
    /\ srPc = "done"
    /\ srErr # ""
    /\ Len(CallsOf("BatchModify")) = 2
    /\ CallsOf("BatchModify")[1].ok
    /\ ~CallsOf("BatchModify")[2].ok

\* C24: in any rps consecutive ticker periods at most rps Wait calls return
\* nil, also after the bucket has filled up while idle.
C24_AtMostRpsCallsPerSecond ==
    \A k \in 0..ticks :
       Cardinality({i \in DOMAIN waits : waits[i] >= k /\ waits[i] < k + rps}) <= rps

\* C25: once Stop has stopped the ticker, run leaves its loop and closes
\* stopDone, and Stop returns.
C25_StopReturns == (stopPc = "blocked") ~> (stopPc = "returned")

\* the rules named in the i-th conflict
ConflictRules(i) == Range(Findings.Conflicts[i].Rules)

\* C27: every Conflict names at least two distinct rules, one that archives
\* and another one that stars a sampled message both of them match.
C27_ConflictNamesTwoRules ==
    Computed =>
      \A i \in DOMAIN Findings.Conflicts :
         /\ Cardinality(ConflictRules(i)) >= 2
         /\ \E k \in DOMAIN metas : \E a, b \in MatchedBy(k) :
               /\ a # b
               /\ compiled[a].Name # compiled[b].Name
               /\ compiled[a].Actions.Archive
               /\ compiled[b].Actions.Star
               /\ {compiled[a].Name, compiled[b].Name} \subseteq ConflictRules(i)

\* the summaries of the rules that are evaluable and match sampled message k
OwnSummaries(k) ==
    {[Name |-> compiled[r].Name, Actions |-> compiled[r].Actions] : r \in MatchedBy(k)}

\* C28: the summaries collected for a message are those of the evaluable
\* rules whose own matchers match it, and every Conflict is made of the names
\* of such rules of one message, an archive rule and a star rule among them.
C28_OnlyMatchingRulesInConflictAnalysis ==
    Computed =>
      /\ \A byMessage \in {collectRuleSummaries(compiled, matches)} :
            /\ DOMAIN byMessage = {metas[k].ID : k \in {j \in DOMAIN metas : MatchedBy(j) # {}}}
            /\ \A k \in DOMAIN metas :
                  metas[k].ID \in DOMAIN byMessage =>
                     Range(byMessage[metas[k].ID]) = OwnSummaries(k)
      /\ \A i \in DOMAIN Findings.Conflicts :
            \E k \in DOMAIN metas :
               /\ ArchiveNames(k) # {}
               /\ StarNames(k) # {}
               /\ ConflictRules(i) = ArchiveNames(k) \cup StarNames(k)

\* the ids of all pages of a chain, in page order
RECURSIVE Flatten(_)
Flatten(chain) == IF chain = <<>> THEN <<>> ELSE Head(chain) \o Flatten(Tail(chain))

\* C29: against a connector serving a finite chain of pages fetchMetadata
\* returns the metadata of the ids of all pages in page order, with one
\* GetMetadata call per listed id and one List call per page; a page without
\* ids that carries a token does not end the loop.
C29_FetchReturnsAllPages ==
    (fn = "fetchMetadata" /\ output # <<>>) =>
       /\ output[1].gets = Flatten(input)
       /\ output[1].metas = [i \in DOMAIN Flatten(input) |-> Mailbox[Flatten(input)[i]]]
       /\ output[1].lists = [i \in DOMAIN input |-> i - 1]

C29_Witness ==
    /\ fn = "fetchMetadata"
    /\ input = << <<"m1">>, <<>>, <<"m2", "m1">> >>
    /\ output # <<>>
    /\ Len(output[1].metas) = 3
    /\ output[1].metas[2].ID = "m2"

====
